---- MODULE Spec2Model ----
(***************************************************************************)
(* Kanban board codec (kanban.py) and its two facades: the terminal menu   *)
(* (kanban.py) and the REST handlers (server.py).                          *)
(*                                                                         *)
(* Text is a sequence of characters; a character is a one-element string.  *)
(* Two characters stand for Unicode code points whose Python behaviour     *)
(* matters to the codec: "U+0130" (LATIN CAPITAL LETTER I WITH DOT ABOVE,   *)
(* a word character whose str.lower() is "i" followed by U+0307) and        *)
(* "U+0307" (COMBINING DOT ABOVE, neither \w nor \s).  The grave accent of  *)
(* a fence is written "U+0060".                                            *)
(***************************************************************************)
EXTENDS Integers, Sequences, FiniteSets, TLC

\* ------------------------------------------------------------------------
\* Characters and Python string primitives
\* ------------------------------------------------------------------------

NL == "\n"

\* the grave accent (backtick)
BT == "U+0060"

\* str.isspace() / regex \s, restricted to the characters of the model
IsSpace(c) == c \in {" ", NL}

LowerLetters ==
    <<"a", "b", "c", "d", "e", "f", "g", "h", "i", "j", "k", "l",
      "m", "n", "o", "p", "q", "r", "s", "t", "u", "v", "w", "x",
      "y", "z">>

UpperLetters ==
    <<"A", "B", "C", "D", "E", "F", "G", "H", "I", "J", "K", "L",
      "M", "N", "O", "P", "Q", "R", "S", "T", "U", "V", "W", "X",
      "Y", "Z">>

Digits == <<"0", "1", "2", "3", "4", "5", "6", "7", "8", "9">>

\* the characters of s, as a set
Range(s) == {s[i] : i \in 1..Len(s)}

\* regex \w: the ASCII letters, digits and underscore, and the letter U+0130
IsWord(c) ==
    c \in Range(LowerLetters) \cup Range(UpperLetters) \cup Range(Digits)
            \cup {"_", "U+0130"}

\* str.lower() of one character (a sequence: U+0130 lowers to two code points)
LowerChar(c) ==
    IF c \in Range(UpperLetters)
    THEN <<LowerLetters[CHOOSE i \in 1..26 : UpperLetters[i] = c]>>
    ELSE IF c = "U+0130" THEN <<"i", "U+0307">>
    ELSE <<c>>

RECURSIVE lower(_)
lower(s) == IF s = <<>> THEN <<>> ELSE LowerChar(Head(s)) \o lower(Tail(s))

RECURSIVE lstrip(_)
lstrip(s) == IF s # <<>> /\ IsSpace(Head(s)) THEN lstrip(Tail(s)) ELSE s

RECURSIVE rstrip(_)
rstrip(s) ==
    IF s # <<>> /\ IsSpace(s[Len(s)]) THEN rstrip(SubSeq(s, 1, Len(s) - 1)) ELSE s

\* str.strip()
strip(s) == rstrip(lstrip(s))

\* str.startswith(prefix)
startswith(s, prefix) ==
    Len(s) >= Len(prefix) /\ SubSeq(s, 1, Len(prefix)) = prefix

\* text.split("\n"): always at least one (possibly empty) piece
RECURSIVE split(_)
split(text) ==
    IF \E i \in 1..Len(text) : text[i] = NL
    THEN LET i == CHOOSE j \in 1..Len(text) :
                      text[j] = NL /\ \A k \in 1..(j - 1) : text[k] # NL
         IN  <<SubSeq(text, 1, i - 1)>> \o split(SubSeq(text, i + 1, Len(text)))
    ELSE <<text>>

\* "\n".join(lines)
RECURSIVE join(_)
join(lines) ==
    IF lines = <<>> THEN <<>>
    ELSE IF Len(lines) = 1 THEN lines[1]
    ELSE lines[1] \o <<NL>> \o join(Tail(lines))

\* ------------------------------------------------------------------------
\* Regular expressions of the parser
\* ------------------------------------------------------------------------

\* regex "." : any character but a newline
IsDot(c) == c # NL

\* re.match(r"^## (.+)$", line): a match, with group(1) = rest of the line
H2Matches(line) ==
    /\ Len(line) >= 4
    /\ SubSeq(line, 1, 3) = <<"#", "#", " ">>
    /\ \A i \in 4..Len(line) : IsDot(line[i])

H2Group(line) == SubSeq(line, 4, Len(line))

\* re.match(r"^### (.+)$", line)
H3Matches(line) ==
    /\ Len(line) >= 5
    /\ SubSeq(line, 1, 4) = <<"#", "#", "#", " ">>
    /\ \A i \in 5..Len(line) : IsDot(line[i])

H3Group(line) == SubSeq(line, 5, Len(line))

\* re.match(r"^-\s+(\w[\w\s]*?):\s*(.+)$", s).  The key class excludes ":"
\* so the key ends at the first colon; KeyStart is the first character after
\* the run of whitespace that follows the dash.
KeyStart(s) ==
    CHOOSE i \in 2..(Len(s) + 1) :
        /\ \A j \in 2..(i - 1) : IsSpace(s[j])
        /\ (i <= Len(s) => ~IsSpace(s[i]))

HasColon(s) == \E i \in 1..Len(s) : s[i] = ":"

FirstColon(s) ==
    CHOOSE i \in 1..Len(s) : s[i] = ":" /\ \A j \in 1..(i - 1) : s[j] # ":"

MetaMatches(s) ==
    /\ Len(s) >= 1
    /\ s[1] = "-"
    /\ KeyStart(s) >= 3
    /\ KeyStart(s) <= Len(s)
    /\ IsWord(s[KeyStart(s)])
    /\ HasColon(s)
    /\ FirstColon(s) > KeyStart(s)
    /\ \A j \in KeyStart(s)..(FirstColon(s) - 1) : IsWord(s[j]) \/ IsSpace(s[j])
    /\ FirstColon(s) < Len(s)
    /\ \E j \in (FirstColon(s) + 1)..Len(s) :
           /\ IsDot(s[j])
           /\ \A k \in j..Len(s) : IsDot(s[k])
           /\ \A k \in (FirstColon(s) + 1)..(j - 1) : IsSpace(s[k])

MetaKeyGroup(s) == SubSeq(s, KeyStart(s), FirstColon(s) - 1)

\* group(2): \s* is greedy, so the value starts at the first non-space
\* character after the colon (or at the last character when all are spaces)
MetaValGroup(s) ==
    LET c == FirstColon(s)
        j == CHOOSE i \in (c + 1)..Len(s) :
                 /\ \A k \in (c + 1)..(i - 1) : IsSpace(s[k])
                 /\ (~IsSpace(s[i]) \/ i = Len(s))
    IN  SubSeq(s, j, Len(s))

\* ------------------------------------------------------------------------
\* Data model
\* ------------------------------------------------------------------------

\* Card(title, meta, body).  meta is a Python dict: a sequence of key/value
\* entries in insertion order, with no key twice.
Card(title, meta, body) == [title |-> title, meta |-> meta, body |-> body]

\* the (name, cards) tuple of Board.columns
Column(name, cards) == [name |-> name, cards |-> cards]

\* key in meta
HasKey(meta, key) == \E i \in 1..Len(meta) : meta[i].key = key

\* meta.setdefault(key, val): an existing key keeps its value
DictSetDefault(meta, key, val) ==
    IF HasKey(meta, key) THEN meta ELSE Append(meta, [key |-> key, val |-> val])

\* meta[key] = val: an existing key keeps its position, a new key goes last
DictSet(meta, key, val) ==
    IF HasKey(meta, key)
    THEN [i \in 1..Len(meta) |->
             IF meta[i].key = key THEN [key |-> key, val |-> val] ELSE meta[i]]
    ELSE Append(meta, [key |-> key, val |-> val])

\* del meta[key]
DictDel(meta, key) ==
    LET keep(e) == e.key # key IN SelectSeq(meta, keep)

\* dict equality ignores insertion order
DictItems(meta) == {meta[i] : i \in 1..Len(meta)}

CardEq(c1, c2) ==
    /\ c1.title = c2.title
    /\ DictItems(c1.meta) = DictItems(c2.meta)
    /\ c1.body = c2.body

ColumnEq(k1, k2) ==
    /\ k1.name = k2.name
    /\ Len(k1.cards) = Len(k2.cards)
    /\ \A i \in 1..Len(k1.cards) : CardEq(k1.cards[i], k2.cards[i])

\* structural equality of two Documents
BoardEq(b1, b2) ==
    /\ Len(b1) = Len(b2)
    /\ \A i \in 1..Len(b1) : ColumnEq(b1[i], b2[i])

\* Board.column_names
column_names(board) == [i \in 1..Len(board) |-> board[i].name]

\* Board.get_column: index of the first column whose lower-cased name equals
\* the lower-cased argument, 0 for None
get_column(board, name) ==
    IF \E i \in 1..Len(board) : lower(board[i].name) = lower(name)
    THEN CHOOSE i \in 1..Len(board) :
             /\ lower(board[i].name) = lower(name)
             /\ \A j \in 1..(i - 1) : lower(board[j].name) # lower(name)
    ELSE 0

\* sum(len(cards) for _, cards in board.columns)
RECURSIVE TotalCards(_)
TotalCards(board) ==
    IF board = <<>> THEN 0 ELSE Len(board[1].cards) + TotalCards(Tail(board))

\* ------------------------------------------------------------------------
\* Parser
\* ------------------------------------------------------------------------

\* the loop body of _parse_card_block with the test of in_fence after the
\* metadata match instead of before it
CardBlockLineMetaFirst(st, line) ==
    LET stripped == strip(line) IN
    IF startswith(stripped, <<BT, BT, BT>>)
    THEN [st EXCEPT !.in_fence = ~st.in_fence]
    ELSE IF MetaMatches(stripped)
    THEN [st EXCEPT !.meta = DictSet(st.meta,
                                     lower(strip(MetaKeyGroup(stripped))),
                                     strip(MetaValGroup(stripped)))]
    ELSE IF st.in_fence
    THEN [st EXCEPT !.body_lines = Append(st.body_lines, stripped)]
    ELSE st

\* one iteration of the loop of _parse_card_block
CardBlockLine(st, line) ==
    LET stripped == strip(line) IN
    IF startswith(stripped, <<BT, BT, BT>>)
    THEN [st EXCEPT !.in_fence = ~st.in_fence]
    ELSE IF st.in_fence
    THEN [st EXCEPT !.body_lines = Append(st.body_lines, stripped)]
    ELSE IF MetaMatches(stripped)
    THEN [st EXCEPT !.meta = DictSet(st.meta,
                                     lower(strip(MetaKeyGroup(stripped))),
                                     strip(MetaValGroup(stripped)))]
    ELSE st

RECURSIVE CardBlockLoop(_, _)
CardBlockLoop(st, lines) ==
    IF lines = <<>> THEN st
    ELSE CardBlockLoop(CardBlockLine(st, Head(lines)), Tail(lines))

\* _parse_card_block(lines) -> (meta, body)
parse_card_block(lines) ==
    LET st == CardBlockLoop([meta |-> <<>>, body_lines |-> <<>>,
                             in_fence |-> FALSE], lines)
    IN  [meta |-> st.meta, body |-> strip(join(st.body_lines))]

\* the locals of parse_board; has_col / has_card are "is not None"
ParseInit ==
    [columns |-> <<>>, has_col |-> FALSE, current_col |-> <<>>,
     current_cards |-> <<>>, has_card |-> FALSE, current_card |-> <<>>,
     card_lines |-> <<>>]

flush_card(st) ==
    IF st.has_card
    THEN LET mb == parse_card_block(st.card_lines) IN
         [st EXCEPT !.current_cards =
                        Append(st.current_cards,
                               Card(st.current_card, mb.meta, mb.body)),
                    !.has_card = FALSE,
                    !.current_card = <<>>,
                    !.card_lines = <<>>]
    ELSE st

\* _flush_column without its call of _flush_card
FlushColumnWithoutCard(st) ==
    IF st.has_col
    THEN [st EXCEPT !.columns =
                        Append(st.columns, Column(st.current_col, st.current_cards)),
                    !.current_cards = <<>>,
                    !.has_col = FALSE,
                    !.current_col = <<>>]
    ELSE st

flush_column(st) ==
    LET s1 == flush_card(st) IN
    IF s1.has_col
    THEN [s1 EXCEPT !.columns =
                        Append(s1.columns, Column(s1.current_col, s1.current_cards)),
                    !.current_cards = <<>>,
                    !.has_col = FALSE,
                    !.current_col = <<>>]
    ELSE s1

\* one iteration of the loop over text.split("\n")
ParseLine(st, line) ==
    IF H2Matches(line)
    THEN [flush_column(st) EXCEPT !.has_col = TRUE,
                                  !.current_col = strip(H2Group(line))]
    ELSE IF H3Matches(line)
    THEN [flush_card(st) EXCEPT !.has_card = TRUE,
                                !.current_card = strip(H3Group(line))]
    ELSE IF st.has_card
    THEN [st EXCEPT !.card_lines = Append(st.card_lines, line)]
    ELSE st

RECURSIVE ParseLoop(_, _)
ParseLoop(st, lines) ==
    IF lines = <<>> THEN st ELSE ParseLoop(ParseLine(st, Head(lines)), Tail(lines))

\* parse_board: text of the file -> Board.columns
parse_board(text) == flush_column(ParseLoop(ParseInit, split(text))).columns

\* ------------------------------------------------------------------------
\* Serialiser
\* ------------------------------------------------------------------------

MetaLine(entry) == <<" ", " ", "-", " ">> \o entry.key \o <<":", " ">> \o entry.val

FenceOpenLine == <<" ", " ", " ", " ", BT, BT, BT, "m", "d">>

FenceCloseLine == <<" ", " ", " ", " ", BT, BT, BT>>

BodyLine(body_line) == <<" ", " ", " ", " ">> \o body_line

\* write_board with the fence written for every card that has meta or a body
CardLinesFenceAlways(card) ==
    <<(<<"#", "#", "#", " ">> \o card.title), <<>>>>
    \o (IF card.meta # <<>> \/ card.body # <<>>
        THEN [i \in 1..Len(card.meta) |-> MetaLine(card.meta[i])]
             \o <<FenceOpenLine>>
             \o [i \in 1..Len(split(card.body)) |-> BodyLine(split(card.body)[i])]
             \o <<FenceCloseLine>>
             \o << <<>> >>
        ELSE <<>>)

\* the lines write_board appends for one card
CardLines(card) ==
    <<(<<"#", "#", "#", " ">> \o card.title), <<>>>>
    \o (IF card.meta # <<>> \/ card.body # <<>>
        THEN [i \in 1..Len(card.meta) |-> MetaLine(card.meta[i])]
             \o (IF card.body # <<>>
                 THEN <<FenceOpenLine>>
                      \o [i \in 1..Len(split(card.body)) |->
                              BodyLine(split(card.body)[i])]
                      \o <<FenceCloseLine>>
                 ELSE <<>>)
             \o << <<>> >>
        ELSE <<>>)

RECURSIVE CardsLines(_)
CardsLines(cards) ==
    IF cards = <<>> THEN <<>> ELSE CardLines(Head(cards)) \o CardsLines(Tail(cards))

RECURSIVE BoardLines(_)
BoardLines(board) ==
    IF board = <<>> THEN <<>>
    ELSE <<(<<"#", "#", " ">> \o board[1].name), <<>>>>
         \o CardsLines(board[1].cards)
         \o BoardLines(Tail(board))

\* write_board: the text written to the file
write_board(board) == join(BoardLines(board)) \o <<NL>>

\* ------------------------------------------------------------------------
\* State
\* ------------------------------------------------------------------------

VARIABLES
    file,      \* the text of board.kanban.md on disk
    phase,     \* codec run: "input", "parsed", "written", "reparsed", "rewritten"
    text0,     \* codec run: the text first read
    doc,       \* codec run: the Document last returned by parse_board
    prevdoc,   \* codec run: the Document returned by the parse before that
    prevout,   \* codec run: the text produced by the first write_board
    ppc,       \* parse_board call: "nofile", "idle", "loop", "done"
    plines,    \* parse_board call: the lines of the file not yet looked at
    pst,       \* parse_board call: the locals of parse_board
    presult,   \* parse_board call: the Board returned
    pc,        \* facade: per process "idle", "menu", "write", "flush", "crashed"
    board,     \* facade: per process, the Board object of the operation
    board0,    \* facade: per process, the Board as parse_board returned it
    req,       \* facade: per process, the request / menu choice being served
    resp,      \* facade: per process, the outcome of the last operation
    snap,      \* facade: per process, the text its last parse_board read
    ops,       \* facade: number of operations started so far
    base,      \* facade: the text of the file before any operation
    trace,     \* facade: the starts, opens and flushes so far, in order, each
               \* with the text of the file just before it
    py311,     \* dashboard: the interpreter is Python 3.11 or later
    today,     \* dashboard: datetime.date.today(), as a proleptic ordinal
    dcol,      \* dashboard: the name of the column of the card looked at
    dmeta,     \* dashboard: the meta of the card looked at
    dpc,       \* dashboard: "off", "idle", "due", "shown", "crashed"
    ddue,      \* dashboard: what _parse_due returned for the card
    dtag,      \* dashboard: the tags computed for the card
    sn,        \* run_steps: len(steps)
    sidx,      \* run_steps: idx
    spc,       \* run_steps: "off", "loop", "step", "ask", "done"
    slast,     \* run_steps: the index and the result of the last step run
    sret,      \* run_steps: the value returned, "none" before the return
    cqueue,    \* _create_batch: the drafts not yet handed to execute_create
    cn,        \* _create_batch: len(drafts)
    cpc,       \* execute_create: "off", "idle", "labels", "create", "add",
               \* "fields", "return", "done"
    cfi,       \* execute_create: position in state["fields"].items()
    clog,      \* execute_create: the backend commands of this call, in order
    cret,      \* execute_create: the value last returned, "none" before
    cmade,     \* the number of issues the backend has created
    creport    \* _create_batch: the number of issues reported as created

codecVars == <<phase, text0, doc, prevdoc, prevout>>

parserVars == <<ppc, plines, pst, presult>>

facadeVars == <<pc, board, board0, req, resp, snap, ops, base, trace>>

dashVars == <<py311, today, dcol, dmeta, dpc, ddue, dtag>>

stepVars == <<sn, sidx, spc, slast, sret>>

createVars == <<cqueue, cn, cpc, cfi, clog, cret, cmade, creport>>

wizVars == <<stepVars, createVars>>

vars == <<file, codecVars, parserVars, facadeVars, dashVars, wizVars>>

\* the two threads of the web server's thread pool that the model follows
Workers == {"w1", "w2"}

\* the process running kanban_menu
Term == "term"

Procs == Workers \cup {Term}

NoReq == [op |-> "none"]

FacadeIdle ==
    /\ pc = [p \in Procs |-> "idle"]
    /\ board = [p \in Procs |-> <<>>]
    /\ board0 = [p \in Procs |-> <<>>]
    /\ req = [p \in Procs |-> NoReq]
    /\ resp = [p \in Procs |-> "none"]
    /\ snap = [p \in Procs |-> <<>>]
    /\ ops = 0
    /\ base = <<>>
    /\ trace = <<>>

ParserIdle ==
    /\ ppc = "idle"
    /\ plines = <<>>
    /\ pst = ParseInit
    /\ presult = <<>>

CodecIdle ==
    /\ phase = "input"
    /\ text0 = <<>>
    /\ doc = <<>>
    /\ prevdoc = <<>>
    /\ prevout = <<>>

\* _parse_due returned None
NoDue == [kind |-> "none"]

NoTag == [focus |-> [kind |-> "none", days |-> 0], todo |-> [kind |-> "none", days |-> 0]]

DashIdle ==
    /\ py311 = FALSE
    /\ today = 0
    /\ dcol = <<>>
    /\ dmeta = <<>>
    /\ dpc = "off"
    /\ ddue = NoDue
    /\ dtag = NoTag

NoStep == [idx |-> -1, res |-> "none"]

\* neither run_steps nor execute_create is running
WizIdle ==
    /\ sn = 0
    /\ sidx = 0
    /\ spc = "off"
    /\ slast = NoStep
    /\ sret = "none"
    /\ cqueue = <<>>
    /\ cn = 0
    /\ cpc = "off"
    /\ cfi = 0
    /\ clog = <<>>
    /\ cret = "none"
    /\ cmade = 0
    /\ creport = -1

\* ------------------------------------------------------------------------
\* Board files read by the codec
\* ------------------------------------------------------------------------

\* number of items (a heading, a card with its block, a stray line) in a file
MaxItems == 3

ColA == <<"#", "#", " ", "A">>

ColLowerA == <<"#", "#", " ", "a">>

ColBlank == <<"#", "#", " ", " ">>

CardC == <<"#", "#", "#", " ", "c">>

CardBlank == <<"#", "#", "#", " ", " ">>

MetaKV == <<"-", " ", "k", ":", " ", "v">>

FileItems ==
    { <<ColA>>,
      <<ColLowerA>>,
      <<ColBlank>>,
      <<CardC>>,
      <<CardBlank, MetaKV>>,
      \* canonical card: due date, body with a blank line and a "- k: z" line
      << <<"#", "#", "#", " ", "d">>,
         <<" ", " ", "-", " ", "d", "u", "e", ":", " ", "x">>,
         <<" ", " ", " ", " ", BT, BT, BT, "m", "d">>,
         <<" ", " ", " ", " ", "b">>,
         <<>>,
         <<" ", " ", " ", " ", "-", " ", "k", ":", " ", "z">>,
         <<" ", " ", " ", " ", BT, BT, BT>> >>,
      \* upper-case key without a space after the colon, the same key again,
      \* a key/value line without a dash, a stray line
      << <<"#", "#", "#", " ", "e">>,
         <<"-", " ", "K", ":", "w">>,
         MetaKV,
         <<"k", ":", " ", "u">>,
         <<"z", "z">> >>,
      \* a key that is the word character U+0130
      << <<"#", "#", "#", " ", "f">>,
         <<"-", " ", "U+0130", ":", " ", "v">> >>,
      \* a fence that is never closed
      << <<"#", "#", "#", " ", "g">>,
         <<BT, BT, BT>>,
         MetaKV >>,
      \* body first, metadata after the fence
      << <<"#", "#", "#", " ", "t">>,
         <<BT, BT, BT>>,
         <<"b">>,
         <<BT, BT, BT>>,
         <<"-", " ", "d", "u", "e", ":", " ", "x">> >>,
      << <<"z", "z">> >> }

\* every line followed by a newline
RECURSIVE Unlines(_)
Unlines(lines) ==
    IF lines = <<>> THEN <<>> ELSE Head(lines) \o <<NL>> \o Unlines(Tail(lines))

RECURSIVE ItemSeqs(_)
ItemSeqs(n) ==
    IF n = 0 THEN {<<>>}
    ELSE LET shorter == ItemSeqs(n - 1) IN
         shorter \cup {ls \o item : ls \in shorter, item \in FileItems}

InputTexts == {Unlines(ls) : ls \in ItemSeqs(MaxItems)}

\* the board file of the concrete scenario: column To Do with the card
\* Fix login bug (due 2025-01-10, body "- steps to repro") and column Done
ScenarioLines ==
    << <<"#", "#", " ", "T", "o", " ", "D", "o">>,
       <<>>,
       <<"#", "#", "#", " ", "F", "i", "x", " ", "l", "o", "g", "i", "n", " ", "b", "u", "g">>,
       <<>>,
       <<" ", " ", "-", " ", "d", "u", "e", ":", " ", "2", "0", "2", "5", "-", "0", "1", "-", "1", "0">>,
       <<" ", " ", " ", " ", BT, BT, BT, "m", "d">>,
       <<" ", " ", " ", " ", "-", " ", "s", "t", "e", "p", "s", " ", "t", "o", " ", "r", "e", "p", "r", "o">>,
       <<" ", " ", " ", " ", BT, BT, BT>>,
       <<>>,
       <<"#", "#", " ", "D", "o", "n", "e">> >>

ScenarioText == Unlines(ScenarioLines)

\* the texts a codec run starts from
CodecTexts == InputTexts \cup {ScenarioText}

\* ------------------------------------------------------------------------
\* Codec run: parse, write, parse again, write again
\* ------------------------------------------------------------------------

CodecInit ==
    /\ file \in CodecTexts
    /\ phase = "input"
    /\ text0 = file
    /\ doc = <<>>
    /\ prevdoc = <<>>
    /\ prevout = <<>>
    /\ ParserIdle
    /\ FacadeIdle
    /\ DashIdle
    /\ WizIdle

\* board = parse_board()
CodecParse ==
    /\ phase \in {"input", "written"}
    /\ doc' = parse_board(file)
    /\ prevdoc' = doc
    /\ phase' = IF phase = "input" THEN "parsed" ELSE "reparsed"
    /\ UNCHANGED <<file, text0, prevout, parserVars, facadeVars, dashVars, wizVars>>

\* write_board(board)
CodecWrite ==
    /\ phase \in {"parsed", "reparsed"}
    /\ file' = write_board(doc)
    /\ prevout' = IF phase = "parsed" THEN write_board(doc) ELSE prevout
    /\ phase' = IF phase = "parsed" THEN "written" ELSE "rewritten"
    /\ UNCHANGED <<text0, doc, prevdoc, parserVars, facadeVars, dashVars, wizVars>>

CodecNext == CodecParse \/ CodecWrite

SpecCodec == CodecInit /\ [][CodecNext]_vars

\* ------------------------------------------------------------------------
\* One call of parse_board, line by line
\* ------------------------------------------------------------------------

\* before the call the board file does not exist yet
ParseCallInit ==
    /\ file = <<>>
    /\ CodecIdle
    /\ ppc = "nofile"
    /\ plines = <<>>
    /\ pst = ParseInit
    /\ presult = <<>>
    /\ FacadeIdle
    /\ DashIdle
    /\ WizIdle

\* the board file is saved by its editor
SaveFile ==
    /\ ppc = "nofile"
    /\ file' \in InputTexts
    /\ ppc' = "idle"
    /\ UNCHANGED <<codecVars, plines, pst, presult, facadeVars, dashVars, wizVars>>

\* text = f.read(); the loop starts over text.split("\n")
ParseOpen ==
    /\ ppc = "idle"
    /\ plines' = split(file)
    /\ pst' = ParseInit
    /\ ppc' = "loop"
    /\ UNCHANGED <<file, codecVars, presult, facadeVars, dashVars, wizVars>>

\* one iteration of the for loop
ParseStep ==
    /\ ppc = "loop"
    /\ plines # <<>>
    /\ pst' = ParseLine(pst, Head(plines))
    /\ plines' = Tail(plines)
    /\ UNCHANGED <<file, codecVars, ppc, presult, facadeVars, dashVars, wizVars>>

\* _flush_column(); return Board(columns)
ParseReturn ==
    /\ ppc = "loop"
    /\ plines = <<>>
    /\ presult' = flush_column(pst).columns
    /\ ppc' = "done"
    /\ UNCHANGED <<file, codecVars, plines, pst, facadeVars, dashVars, wizVars>>

ParseCallNext == SaveFile \/ ParseOpen \/ ParseStep \/ ParseReturn

\* The control part of the three steps of a call.  A step of ParseOpen,
\* ParseStep or ParseReturn is exactly a step of the corresponding control
\* formula, and the control formula is enabled exactly when the step is.
ParseOpenCtl == ppc = "idle" /\ ppc' = "loop"

ParseStepCtl == ppc = "loop" /\ plines # <<>> /\ plines' = Tail(plines)

ParseReturnCtl == ppc = "loop" /\ plines = <<>> /\ ppc' = "done"

\* a call that has started keeps running: nothing in the loop waits on
\* anything (the file need never be saved, so SaveFile is not fair)
SpecParse ==
    /\ ParseCallInit
    /\ [][ParseCallNext]_vars
    /\ WF_ppc(ParseOpenCtl)
    /\ WF_plines(ParseStepCtl)
    /\ WF_ppc(ParseReturnCtl)

\* ------------------------------------------------------------------------
\* Claims about the codec
\* ------------------------------------------------------------------------

\* valid input: every column heading and every card heading names something
\* (the title of a card is a non-empty string)
ValidInput(text) ==
    \A i \in 1..Len(split(text)) :
        LET line == split(text)[i] IN
        /\ (H2Matches(line) => strip(H2Group(line)) # <<>>)
        /\ (H3Matches(line) => strip(H3Group(line)) # <<>>)

\* C1: round trip.  For a Document D parsed from valid input, parsing the text
\* written for D yields a Document structurally equal to D.
C1_RoundTrip ==
    (phase = "reparsed" /\ ValidInput(text0)) => BoardEq(doc, prevdoc)

\* C7: idempotent re-serialise.  Writing parse(serialize(D)) produces exactly
\* the text written for D.
C7_IdempotentWrite ==
    phase = "rewritten" => file = prevout

EmptyCard(card) == card.meta = <<>> /\ card.body = <<>>

\* C8: empty-card minimality.  A card with empty meta and empty body is written
\* as its heading line and one blank line, and parsing the written text yields
\* that card with empty meta and empty body.  (Stated for Documents whose
\* columns all have a name, so that the columns of the two parses line up.)
C8_EmptyCardMinimal ==
    (phase = "reparsed" /\ \A k \in 1..Len(prevdoc) : prevdoc[k].name # <<>>) =>
        \A i \in 1..Len(prevdoc) : \A j \in 1..Len(prevdoc[i].cards) :
            LET card == prevdoc[i].cards[j] IN
            EmptyCard(card) =>
                /\ CardLines(card) = << <<"#", "#", "#", " ">> \o card.title, <<>> >>
                /\ i <= Len(doc)
                /\ j <= Len(doc[i].cards)
                /\ doc[i].cards[j] = card

UniqueColumnNames(b) ==
    \A i, j \in 1..Len(b) : lower(b[i].name) = lower(b[j].name) => i = j

\* C10: no two columns of a Document returned by parse_board or written by
\* write_board have names that are equal ignoring case.
C10_UniqueColumnNames ==
    phase \in {"parsed", "written", "reparsed", "rewritten"} => UniqueColumnNames(doc)

\* names of the "## " lines, in order
RECURSIVE ColumnHeadings(_)
ColumnHeadings(lines) ==
    IF lines = <<>> THEN <<>>
    ELSE (IF H2Matches(Head(lines)) THEN <<strip(H2Group(Head(lines)))>> ELSE <<>>)
         \o ColumnHeadings(Tail(lines))

\* titles of the "### " lines, in order
RECURSIVE CardHeadings(_)
CardHeadings(lines) ==
    IF lines = <<>> THEN <<>>
    ELSE (IF ~H2Matches(Head(lines)) /\ H3Matches(Head(lines))
          THEN <<strip(H3Group(Head(lines)))>> ELSE <<>>)
         \o CardHeadings(Tail(lines))

\* titles of all cards of a Document, column by column
RECURSIVE AllTitles(_)
AllTitles(b) ==
    IF b = <<>> THEN <<>>
    ELSE [j \in 1..Len(b[1].cards) |-> b[1].cards[j].title] \o AllTitles(Tail(b))

\* C9 as stated: parse_board returns, and every column and every card opened
\* by a heading is in the Document returned.
C9_AllOpenedPresent ==
    ppc = "done" =>
        /\ column_names(presult) = ColumnHeadings(split(file))
        /\ AllTitles(presult) = CardHeadings(split(file))

\* C9 amended: every call of parse_board returns; every column opened by a
\* heading is in the Document returned, and so is every card opened by a
\* heading provided the text has at least one column heading.
C9_ParserTotal ==
    /\ [](ppc = "done" =>
            /\ column_names(presult) = ColumnHeadings(split(file))
            /\ (ColumnHeadings(split(file)) # <<>> =>
                    AllTitles(presult) = CardHeadings(split(file))))
    /\ (ppc = "idle") ~> (ppc = "done")

\* a card heading with no block and a card whose fence is never closed have
\* both been returned
C9_Witness ==
    /\ ppc = "done"
    /\ \E i \in 1..Len(presult) : \E j, k \in 1..Len(presult[i].cards) :
           /\ presult[i].cards[j] = Card(<<"c">>, <<>>, <<>>)
           /\ presult[i].cards[k] = Card(<<"g">>, <<>>, MetaKV)

\* ------------------------------------------------------------------------
\* Python list operations (indices are Python's, from 0)
\* ------------------------------------------------------------------------

Min(a, b) == IF a < b THEN a ELSE b

Max(a, b) == IF a > b THEN a ELSE b

\* lst[i] read where lst.pop(i) was meant: the element stays in the list
ListPopKeepsElement(lst, i) == lst

\* lst.pop(i) for 0 <= i < len(lst): the list without its element i
ListPop(lst, i) == SubSeq(lst, 1, i) \o SubSeq(lst, i + 2, Len(lst))

\* lst.insert(i, x): a negative i counts from the end, and the position is
\* clipped to 0..len(lst)
ListInsert(lst, i, x) ==
    LET pos == IF i < 0 THEN Max(0, Len(lst) + i) ELSE Min(i, Len(lst))
    IN  SubSeq(lst, 1, pos) \o <<x>> \o SubSeq(lst, pos + 1, Len(lst))

\* the Board with the card list of column k replaced
SetCards(b, k, cards) == [b EXCEPT ![k].cards = cards]

\* ------------------------------------------------------------------------
\* REST handlers (server.py)
\* ------------------------------------------------------------------------

Reply(status, b) == [status |-> status, board |-> b]

\* put_board: the Board built from the payload
PutBoardResult(r) ==
    Reply("200",
          [i \in 1..Len(r.board) |->
              Column(r.board[i].name,
                     [j \in 1..Len(r.board[i].cards) |->
                         Card(r.board[i].cards[j].title,
                              r.board[i].cards[j].meta,
                              r.board[i].cards[j].body)])])

\* add_card, after board = parse_board()
AddCardResult(r, b) ==
    LET col == get_column(b, r.column) IN
    IF col = 0 THEN Reply("404", b)
    ELSE Reply("200", SetCards(b, col, Append(b[col].cards,
                                             Card(r.card.title, r.card.meta, r.card.body))))

\* move_card, after board = parse_board()
MoveCardResult(r, b) ==
    LET src == get_column(b, r.column)
        dst == get_column(b, r.to_column)
    IN
    IF src = 0 \/ dst = 0 THEN Reply("404", b)
    ELSE IF r.index < 0 \/ r.index >= Len(b[src].cards) THEN Reply("400", b)
    ELSE LET card == b[src].cards[r.index + 1]
             popped == SetCards(b, src, ListPop(b[src].cards, r.index))
         IN  Reply("200",
                   SetCards(popped, dst,
                            ListInsert(popped[dst].cards,
                                       Min(r.to_index, Len(popped[dst].cards)),
                                       card)))

\* edit_card, after board = parse_board()
EditCardResult(r, b) ==
    LET col == get_column(b, r.column) IN
    IF col = 0 THEN Reply("404", b)
    ELSE IF r.index < 0 \/ r.index >= Len(b[col].cards) THEN Reply("400", b)
    ELSE Reply("200",
               SetCards(b, col,
                        [b[col].cards EXCEPT ![r.index + 1] =
                            Card(r.card.title, r.card.meta, r.card.body)]))

\* delete_card, after board = parse_board()
DeleteCardResult(r, b) ==
    LET col == get_column(b, r.column) IN
    IF col = 0 THEN Reply("404", b)
    ELSE IF r.index < 0 \/ r.index >= Len(b[col].cards) THEN Reply("400", b)
    ELSE Reply("200", SetCards(b, col, ListPop(b[col].cards, r.index)))

\* the route of request r, run on the Board b parsed from the file
HandlerResult(r, b) ==
    CASE r.op = "put" -> PutBoardResult(r)
      [] r.op = "add" -> AddCardResult(r, b)
      [] r.op = "move" -> MoveCardResult(r, b)
      [] r.op = "edit" -> EditCardResult(r, b)
      [] r.op = "delete" -> DeleteCardResult(r, b)

\* a request is read, its board parsed (put_board parses nothing) and the
\* route runs up to its call of write_board or up to its HTTPException
WebStart(p, r) ==
    /\ p \in Workers
    /\ pc[p] = "idle"
    /\ LET b == IF r.op = "put" THEN <<>> ELSE parse_board(file)
           res == HandlerResult(r, b)
       IN  /\ board0' = [board0 EXCEPT ![p] = b]
           /\ board' = [board EXCEPT ![p] = res.board]
           /\ resp' = [resp EXCEPT ![p] = IF res.status = "200" THEN "none" ELSE res.status]
           /\ pc' = [pc EXCEPT ![p] = IF res.status = "200" THEN "write" ELSE "idle"]
    /\ req' = [req EXCEPT ![p] = r]
    /\ snap' = [snap EXCEPT ![p] = IF r.op = "put" THEN <<>> ELSE file]
    /\ ops' = ops + 1
    /\ trace' = Append(trace, [ev |-> "start", proc |-> p, req |-> r, before |-> file,
                               parsed |-> (r.op # "put")])
    /\ UNCHANGED <<file, base, codecVars, parserVars, dashVars, wizVars>>

\* ------------------------------------------------------------------------
\* write_board, as the file system sees it
\* ------------------------------------------------------------------------

\* open(path, "r+"): the file keeps its content
OpenWithoutTruncate(old) == old

\* open(path, "w"): the file is truncated
OpenForWrite(old) == <<>>

\* f.write(content) and close: the bytes go to the start of the file, and
\* whatever the file holds beyond them stays
WriteAtStart(old, content) == content \o SubSeq(old, Len(content) + 1, Len(old))

WriteOpen(p) ==
    /\ pc[p] = "write"
    /\ file' = OpenForWrite(file)
    /\ pc' = [pc EXCEPT ![p] = "flush"]
    /\ trace' = Append(trace, [ev |-> "open", proc |-> p, req |-> req[p], before |-> file])
    /\ UNCHANGED <<board, board0, req, resp, snap, ops, base, codecVars, parserVars, dashVars, wizVars>>

WriteFlush(p) ==
    /\ pc[p] = "flush"
    /\ file' = WriteAtStart(file, write_board(board[p]))
    /\ pc' = [pc EXCEPT ![p] = "idle"]
    /\ resp' = [resp EXCEPT ![p] = IF p \in Workers THEN "200" ELSE "ok"]
    /\ trace' = Append(trace, [ev |-> "flush", proc |-> p, req |-> req[p], before |-> file])
    /\ UNCHANGED <<board, board0, req, snap, ops, base, codecVars, parserVars, dashVars, wizVars>>

\* ------------------------------------------------------------------------
\* Terminal menu (kanban.py)
\* ------------------------------------------------------------------------

NameDone == <<"D", "o", "n", "e">>

\* _pick_card: the (column position, card index) pairs offered; a column whose
\* name is exactly one of exclude_columns is left out
PickOptions(b, exclude) ==
    UNION {{<<k, i>> : i \in 0..(Len(b[k].cards) - 1)} :
              k \in {c \in 1..Len(b) : b[c].name \notin exclude}}

\* board.get_column(name).pop(card_idx) followed by target.append(card), where
\* card is the object picked in column k; IndexError when the column found by
\* name is shorter than the one the card was picked from
PopThenAppend(b, k, i, to_name) ==
    LET card == b[k].cards[i + 1]
        src == get_column(b, b[k].name)
    IN
    IF i >= Len(b[src].cards) THEN Reply("crash", b)
    ELSE LET popped == SetCards(b, src, ListPop(b[src].cards, i))
             dst == get_column(popped, to_name)
         IN  Reply("write", SetCards(popped, dst, Append(popped[dst].cards, card)))

KeyDue == <<"d", "u", "e">>

KeyDefaultExpanded ==
    <<"d", "e", "f", "a", "u", "l", "t", "E", "x", "p", "a", "n", "d", "e", "d">>

ValFalse == <<"f", "a", "l", "s", "e">>

\* the meta add_card builds: due is <<>> when the prompt was skipped
TermAddMeta(due, body_text) ==
    LET m1 == IF due # <<>> THEN DictSet(<<>>, KeyDue, due) ELSE <<>>
    IN  IF body_text # <<>> THEN DictSet(m1, KeyDefaultExpanded, ValFalse) ELSE m1

\* add_card(board): r.pick is the column chosen with pick_one
TermAddResult(r, b) ==
    LET target == get_column(b, b[r.pick].name) IN
    Reply("write", SetCards(b, target,
                            Append(b[target].cards,
                                   Card(r.title, TermAddMeta(r.due, r.body), r.body))))

\* move_card(board): r.pick / r.index the card picked, r.to_pick the column
\* chosen among the columns with another name
TermMoveResult(r, b) == PopThenAppend(b, r.pick, r.index, b[r.to_pick].name)

KeyNone == <<"n", "o", "n", "e">>

\* edit_card(board): the card picked (no column named exactly Done is offered)
\* is changed in place.  r.title and r.due are what prompt() returned after
\* the user typed something, <<>> when the user pressed enter and prompt()
\* returned its default (the current title; the current due date or "none");
\* r.edit_body is the answer to "Edit body?" and r.body the text then entered
TermEditResult(r, b) ==
    LET card == b[r.pick].cards[r.index + 1]
        new_title == IF r.title = <<>> THEN card.title ELSE r.title
        has_due == HasKey(card.meta, KeyDue)
        new_due == IF r.due # <<>> THEN r.due
                   ELSE IF has_due
                        THEN (CHOOSE e \in DictItems(card.meta) : e.key = KeyDue).val
                        ELSE KeyNone
        m1 == IF lower(new_due) = KeyNone /\ has_due THEN DictDel(card.meta, KeyDue)
              ELSE IF lower(new_due) # KeyNone THEN DictSet(card.meta, KeyDue, new_due)
              ELSE card.meta
        new_body == IF r.edit_body THEN r.body ELSE card.body
        m2 == IF r.edit_body /\ new_body # <<>> /\ ~HasKey(m1, KeyDefaultExpanded)
              THEN DictSet(m1, KeyDefaultExpanded, ValFalse)
              ELSE m1
    IN  Reply("write",
              SetCards(b, r.pick,
                       [b[r.pick].cards EXCEPT ![r.index + 1] = Card(new_title, m2, new_body)]))

\* archive_card(board)
TermArchiveResult(r, b) ==
    IF get_column(b, NameDone) = 0 THEN Reply("abort", b)
    ELSE IF ~r.confirm THEN Reply("abort", b)
    ELSE PopThenAppend(b, r.pick, r.index, NameDone)

\* delete_card(board)
TermDeleteResult(r, b) ==
    IF ~r.confirm THEN Reply("abort", b)
    ELSE LET src == get_column(b, b[r.pick].name) IN
         IF r.index >= Len(b[src].cards) THEN Reply("crash", b)
         ELSE Reply("write", SetCards(b, src, ListPop(b[src].cards, r.index)))

\* the branch of kanban_menu taken for choice r on the Board b
MenuResult(r, b) ==
    CASE r.op = "view" -> Reply("abort", b)
      [] r.op = "add" -> TermAddResult(r, b)
      [] r.op = "move" -> TermMoveResult(r, b)
      [] r.op = "edit" -> TermEditResult(r, b)
      [] r.op = "archive" -> TermArchiveResult(r, b)
      [] r.op = "delete" -> TermDeleteResult(r, b)

\* the choices the prompts of the menu accept on the Board b
ChoiceAllowed(r, b) ==
    CASE r.op = "view" -> TRUE
      [] r.op = "add" -> r.pick \in 1..Len(b)
      [] r.op = "move" ->
            /\ <<r.pick, r.index>> \in PickOptions(b, {})
            /\ r.to_pick \in 1..Len(b)
            /\ b[r.to_pick].name # b[r.pick].name
      [] r.op = "archive" ->
            \* without a Done column no card is asked for
            \/ get_column(b, NameDone) = 0 /\ r.pick = 1 /\ r.index = 0 /\ r.confirm
            \/ get_column(b, NameDone) # 0
                  /\ <<r.pick, r.index>> \in PickOptions(b, {NameDone})
      [] r.op = "edit" -> <<r.pick, r.index>> \in PickOptions(b, {NameDone})
      [] r.op = "delete" -> <<r.pick, r.index>> \in PickOptions(b, {})

\* kanban_menu with board = parse_board() before the loop instead of in it:
\* from the second turn on the Document of the turn before is used again
TermParseCached ==
    /\ pc[Term] = "idle"
    /\ LET first == \A i \in 1..Len(trace) : trace[i].proc # Term
           b == IF first THEN parse_board(file) ELSE board[Term]
       IN  /\ board0' = [board0 EXCEPT ![Term] = b]
           /\ board' = [board EXCEPT ![Term] = b]
           /\ trace' = Append(trace, [ev |-> "start", proc |-> Term, req |-> NoReq,
                                      before |-> file, parsed |-> first])
    /\ snap' = [snap EXCEPT ![Term] = file]
    /\ pc' = [pc EXCEPT ![Term] = "menu"]
    /\ req' = [req EXCEPT ![Term] = NoReq]
    /\ resp' = [resp EXCEPT ![Term] = "none"]
    /\ ops' = ops + 1
    /\ UNCHANGED <<file, base, codecVars, parserVars, dashVars, wizVars>>

\* top of the loop of kanban_menu: board = parse_board(), then the prompt
TermParse ==
    /\ pc[Term] = "idle"
    /\ board0' = [board0 EXCEPT ![Term] = parse_board(file)]
    /\ board' = [board EXCEPT ![Term] = parse_board(file)]
    /\ snap' = [snap EXCEPT ![Term] = file]
    /\ pc' = [pc EXCEPT ![Term] = "menu"]
    /\ req' = [req EXCEPT ![Term] = NoReq]
    /\ resp' = [resp EXCEPT ![Term] = "none"]
    /\ ops' = ops + 1
    /\ trace' = Append(trace, [ev |-> "start", proc |-> Term, req |-> NoReq, before |-> file,
                               parsed |-> TRUE])
    /\ UNCHANGED <<file, base, codecVars, parserVars, dashVars, wizVars>>

\* the user answers the prompts; the chosen function runs up to write_board,
\* returns without writing, or dies of an uncaught IndexError
TermChoose(r) ==
    /\ pc[Term] = "menu"
    /\ ChoiceAllowed(r, board[Term])
    /\ LET res == MenuResult(r, board[Term]) IN
       /\ board' = [board EXCEPT ![Term] = res.board]
       /\ pc' = [pc EXCEPT ![Term] =
                    CASE res.status = "write" -> "write"
                      [] res.status = "abort" -> "idle"
                      [] res.status = "crash" -> "crashed"]
       /\ resp' = [resp EXCEPT ![Term] =
                    CASE res.status = "write" -> "none"
                      [] res.status = "abort" -> "abort"
                      [] res.status = "crash" -> "error"]
    /\ req' = [req EXCEPT ![Term] = r]
    /\ UNCHANGED <<file, board0, snap, ops, base, trace, codecVars, parserVars, dashVars, wizVars>>

\* ------------------------------------------------------------------------
\* Inputs of the facades
\* ------------------------------------------------------------------------

\* largest card index a request names (the smallest is -1)
MaxIndex == 2

\* number of operations in a run of the facades, one at a time
MaxOps == 1

NameA == <<"A">>

NameZ == <<"z">>

CardD ==
    << <<"#", "#", "#", " ", "d">>,
       <<>>,
       <<" ", " ", "-", " ", "d", "u", "e", ":", " ", "x">>,
       <<" ", " ", " ", " ", BT, BT, BT, "m", "d">>,
       <<" ", " ", " ", " ", "b">>,
       <<" ", " ", " ", " ", BT, BT, BT>>,
       <<>> >>

ColDone == <<"#", "#", " ", "D", "o", "n", "e">>

\* columns A (cards c and d) and Done (empty), as write_board writes them
FileTwoColumns ==
    Unlines(<<ColA, <<>>, CardC, <<>>>> \o CardD \o <<ColDone, <<>>>>)

\* columns A (c), a (d, e) and Done (f): two names equal ignoring case
FileSameNames ==
    Unlines(<<ColA, <<>>, CardC, <<>>,
              ColLowerA, <<>>,
              <<"#", "#", "#", " ", "d">>, <<>>,
              <<"#", "#", "#", " ", "e">>, <<>>,
              ColDone, <<>>,
              <<"#", "#", "#", " ", "f">>, <<>>>>)

ValTrue == <<"t", "r", "u", "e">>

\* column A with a card g whose expansion flag is true, and a column named
\* done, in lower case, with a card h
FileFlagged ==
    Unlines(<<ColA, <<>>,
              <<"#", "#", "#", " ", "g">>, <<>>,
              <<" ", " ", "-", " ">> \o KeyDefaultExpanded \o <<":", " ">> \o ValTrue,
              <<" ", " ", " ", " ", BT, BT, BT, "m", "d">>,
              <<" ", " ", " ", " ", "b">>,
              <<" ", " ", " ", " ", BT, BT, BT>>,
              <<>>,
              <<"#", "#", " ", "d", "o", "n", "e">>, <<>>,
              <<"#", "#", "#", " ", "h">>, <<>>>>)

\* an empty file
FileEmpty == <<>>

InitFiles == {FileTwoColumns, FileSameNames, FileFlagged, FileEmpty}

IndexArgs == (-1)..MaxIndex

NewCards ==
    { Card(<<"n">>, <<>>, <<>>),
      Card(<<"n">>, <<[key |-> KeyDue, val |-> <<"x">>]>>, <<"b">>) }

PutBoards ==
    { <<Column(NameA, <<Card(<<"n">>, <<>>, <<>>)>>), Column(NameDone, <<>>)>>,
      <<Column(NameA, <<>>), Column(<<"a">>, <<Card(<<"n">>, <<>>, <<>>)>>)>>,
      <<Column(NameA, <<Card(<<"n">>,
                             <<[key |-> KeyDefaultExpanded, val |-> ValFalse]>>,
                             <<"b">>)>>)>> }

WebRequests ==
    {[op |-> "add", column |-> c, card |-> k] : c \in {NameA, NameZ}, k \in NewCards}
    \cup {[op |-> "move", column |-> c, index |-> i, to_column |-> d, to_index |-> j] :
             c \in {NameA, NameZ}, i \in IndexArgs,
             d \in {NameA, NameDone, NameZ}, j \in IndexArgs}
    \cup {[op |-> "edit", column |-> c, index |-> i, card |-> k] :
             c \in {NameA, NameZ}, i \in IndexArgs, k \in NewCards}
    \cup {[op |-> "delete", column |-> c, index |-> i] :
             c \in {NameA, NameZ}, i \in IndexArgs}
    \cup {[op |-> "put", board |-> b] : b \in PutBoards}

\* the init files have at most three columns
ColumnPicks == 1..3

MenuChoices ==
    {[op |-> "view"]}
    \cup {[op |-> "add", pick |-> k, title |-> <<"n">>, due |-> d.due, body |-> d.body] :
             k \in ColumnPicks,
             d \in {[due |-> <<>>, body |-> <<>>], [due |-> <<"x">>, body |-> <<"b">>]}}
    \cup {[op |-> "move", pick |-> k, index |-> i, to_pick |-> t] :
             k \in ColumnPicks, i \in 0..MaxIndex, t \in ColumnPicks}
    \cup {[op |-> "edit", pick |-> k, index |-> i, title |-> t, due |-> d,
            edit_body |-> e.edit_body, body |-> e.body] :
             k \in ColumnPicks, i \in 0..MaxIndex, t \in {<<>>, <<"n">>},
             d \in {<<>>, KeyNone, <<"y">>},
             e \in {[edit_body |-> FALSE, body |-> <<>>],
                    [edit_body |-> TRUE, body |-> <<>>],
                    [edit_body |-> TRUE, body |-> <<"b">>]}}
    \cup {[op |-> o, pick |-> k, index |-> i, confirm |-> y] :
             o \in {"archive", "delete"}, k \in ColumnPicks, i \in 0..MaxIndex,
             y \in BOOLEAN}

\* ------------------------------------------------------------------------
\* The facades, one operation at a time
\* ------------------------------------------------------------------------

FacadeInit(files) ==
    /\ file \in files
    /\ base = file
    /\ pc = [p \in Procs |-> "idle"]
    /\ board = [p \in Procs |-> <<>>]
    /\ board0 = [p \in Procs |-> <<>>]
    /\ req = [p \in Procs |-> NoReq]
    /\ resp = [p \in Procs |-> "none"]
    /\ snap = [p \in Procs |-> <<>>]
    /\ ops = 0
    /\ trace = <<>>
    /\ CodecIdle
    /\ ParserIdle
    /\ DashIdle
    /\ WizIdle

Init == FacadeInit(InitFiles)

\* no other process is inside an operation
Alone(p) == \A q \in Procs \ {p} : pc[q] \in {"idle", "crashed"}

Request == \E r \in WebRequests : ops < MaxOps /\ Alone("w1") /\ WebStart("w1", r)

Menu == ops < MaxOps /\ Alone(Term) /\ TermParse

Choose == \E r \in MenuChoices : TermChoose(r)

Open == \E p \in Procs : WriteOpen(p)

Flush == \E p \in Procs : WriteFlush(p)

Next == Request \/ Menu \/ Choose \/ Open \/ Flush

Spec == Init /\ [][Next]_vars

\* ------------------------------------------------------------------------
\* Claims about single operations
\* ------------------------------------------------------------------------

\* C4: a move (terminal move_card, terminal archive_card, REST move) leaves
\* the sum of the column lengths of the Document unchanged.
C4_MovePreservesCount ==
    \A p \in Procs :
        req[p].op \in {"move", "archive"} =>
            TotalCards(board[p]) = TotalCards(board0[p])

\* a REST move with a destination index beyond the end of the destination
\* column has changed its Document
C4_Witness ==
    \E p \in Workers :
        /\ pc[p] = "write"
        /\ req[p].op = "move"
        /\ req[p].to_index > Len(board0[p][get_column(board0[p], req[p].to_column)].cards)
        /\ board[p] # board0[p]

\* p has just been answered or has just reached its write_board
JustHandled(p) ==
    /\ trace # <<>>
    /\ trace[Len(trace)].ev = "start"
    /\ trace[Len(trace)].proc = p
    /\ req[p] # NoReq

\* C5: a REST move removes the card at from_index from the source column and
\* inserts that card in the destination column at position
\* min(to_index, current destination length); all other cards keep their order.
C5_MoveRelocatesOneCard ==
    \A p \in Workers :
        (JustHandled(p) /\ req[p].op = "move" /\ pc[p] = "write") =>
            LET r == req[p]
                src == get_column(board0[p], r.column)
                dst == get_column(board0[p], r.to_column)
                card == board0[p][src].cards[r.index + 1]
                rest == SetCards(board0[p], src, ListPop(board0[p][src].cards, r.index))
                pos == Min(r.to_index, Len(rest[dst].cards))
            IN  /\ pos >= 0
                /\ pos < Len(board[p][dst].cards)
                /\ board[p][dst].cards[pos + 1] = card
                /\ SetCards(board[p], dst, ListPop(board[p][dst].cards, pos)) = rest

UnknownColumn(r, b) ==
    \/ r.op \in {"add", "move", "edit", "delete"} /\ get_column(b, r.column) = 0
    \/ r.op = "move" /\ get_column(b, r.to_column) = 0

IndexOutOfRange(r, b) ==
    \/ /\ r.op \in {"move", "edit", "delete"}
       /\ (r.index < 0 \/ r.index >= Len(b[get_column(b, r.column)].cards))
    \/ r.op = "move" /\ r.to_index < 0

\* C6: a REST card operation naming an unknown column is answered 404, one
\* naming an out-of-range index (a negative destination index included) is
\* answered 400, and in both cases the board file is left as it was.
C6_InvalidReferenceRejected ==
    \A p \in Workers :
        (JustHandled(p) /\ req[p].op # "put") =>
            /\ UnknownColumn(req[p], board0[p]) =>
                   (resp[p] = "404" /\ pc[p] = "idle" /\ file = snap[p])
            /\ (~UnknownColumn(req[p], board0[p]) /\ IndexOutOfRange(req[p], board0[p])) =>
                   (resp[p] = "400" /\ pc[p] = "idle" /\ file = snap[p])

\* ------------------------------------------------------------------------
\* Two requests in the web server; the web server beside the terminal
\* ------------------------------------------------------------------------

\* number of operations in a run with concurrency
MaxConcOps == 2

ConcRequests ==
    { [op |-> "add", column |-> NameA, card |-> Card(<<"n">>, <<>>, <<>>)],
      [op |-> "move", column |-> NameA, index |-> 0, to_column |-> NameDone, to_index |-> 0],
      [op |-> "edit", column |-> NameA, index |-> 0,
       card |-> Card(<<"n">>, <<[key |-> KeyDue, val |-> <<"x">>]>>, <<>>)],
      [op |-> "delete", column |-> NameA, index |-> 0],
      [op |-> "put", board |-> <<Column(NameA, <<>>), Column(NameDone, <<>>)>>] }

WebInit == FacadeInit({FileTwoColumns})

WebRequest == \E p \in Workers, r \in ConcRequests : ops < MaxConcOps /\ WebStart(p, r)

WebOpen == \E p \in Workers : WriteOpen(p)

WebFlush == \E p \in Workers : WriteFlush(p)

WebNext == WebRequest \/ WebOpen \/ WebFlush

\* uvicorn runs the synchronous routes on a pool of threads: two requests may
\* be anywhere in their handlers at the same time
SpecWeb == WebInit /\ [][WebNext]_vars

\* what the user of the terminal does while the web server is running
CrossChoices ==
    { [op |-> "view"],
      [op |-> "add", pick |-> 1, title |-> <<"n">>, due |-> <<>>, body |-> <<>>],
      [op |-> "add", pick |-> 2, title |-> <<"n">>, due |-> <<"x">>, body |-> <<"b">>],
      [op |-> "move", pick |-> 1, index |-> 0, to_pick |-> 2],
      [op |-> "move", pick |-> 1, index |-> 1, to_pick |-> 2],
      [op |-> "edit", pick |-> 1, index |-> 0, title |-> <<"n">>, due |-> <<"y">>,
       edit_body |-> TRUE, body |-> <<"b">>],
      [op |-> "edit", pick |-> 1, index |-> 1, title |-> <<>>, due |-> KeyNone,
       edit_body |-> TRUE, body |-> <<>>],
      [op |-> "archive", pick |-> 1, index |-> 0, confirm |-> TRUE],
      [op |-> "archive", pick |-> 1, index |-> 1, confirm |-> FALSE],
      [op |-> "delete", pick |-> 1, index |-> 0, confirm |-> TRUE],
      [op |-> "delete", pick |-> 1, index |-> 1, confirm |-> TRUE] }

CrossInit == FacadeInit({FileTwoColumns})

CrossRequest == \E r \in ConcRequests : ops < MaxConcOps /\ WebStart("w1", r)

CrossMenu == ops < MaxConcOps /\ TermParse

CrossChoose == \E r \in CrossChoices : TermChoose(r)

CrossOpen == \E p \in {"w1", Term} : WriteOpen(p)

CrossFlush == \E p \in {"w1", Term} : WriteFlush(p)

CrossNext == CrossRequest \/ CrossMenu \/ CrossChoose \/ CrossOpen \/ CrossFlush

\* the terminal process and the web server are two processes on one file
SpecCross == CrossInit /\ [][CrossNext]_vars

\* the text of the file after request r has run alone on a file holding text
ApplyRequest(r, text) ==
    LET b == IF r.op = "put" THEN <<>> ELSE parse_board(text)
        res == HandlerResult(r, b)
    IN  IF res.status = "200" THEN write_board(res.board) ELSE text

\* the text of the file after the menu choice r has run alone
ApplyChoice(r, text) ==
    LET res == MenuResult(r, parse_board(text))
    IN  IF res.status = "write" THEN write_board(res.board) ELSE text

\* the requests started so far, in the order they were started
RECURSIVE StartedRequests(_)
StartedRequests(tr) ==
    IF tr = <<>> THEN <<>>
    ELSE (IF Head(tr).ev = "start" THEN <<Head(tr).req>> ELSE <<>>)
         \o StartedRequests(Tail(tr))

\* the texts left by running the requests rs[i], i in S, one after the other
\* in some order on a file holding text
RECURSIVE SerialOutcomes(_, _, _)
SerialOutcomes(text, rs, S) ==
    IF S = {} THEN {text}
    ELSE UNION {SerialOutcomes(ApplyRequest(rs[i], text), rs, S \ {i}) : i \in S}

\* C2: within the web server each request is atomic with respect to every
\* other: once all requests are answered, the board file is the result of
\* running them one after the other in some order.
C2_RequestsSerializable ==
    (\A p \in Workers : pc[p] = "idle") =>
        LET rs == StartedRequests(trace) IN
        file \in SerialOutcomes(base, rs, 1..Len(rs))

\* index in the trace of the last start of process p, 0 if it never started
LastStart(p) ==
    LET S == {i \in 1..Len(trace) : trace[i].ev = "start" /\ trace[i].proc = p}
    IN  IF S = {} THEN 0 ELSE CHOOSE i \in S : \A j \in S : j <= i

IsEvent(e, ev, p) == e.ev = ev /\ e.proc = p

\* S parsed the file, then F wrote it (F may have parsed after S did), then S
\* wrote it, and this is the state S's write leaves
SecondWroteLast(F, S) ==
    /\ LastStart(S) > 0
    /\ LET tail == SubSeq(trace, LastStart(S) + 1, Len(trace))
           n == Len(tail)
       IN  /\ n \in {4, 5}
           /\ n = 5 => IsEvent(tail[1], "start", F)
           /\ IsEvent(tail[n - 3], "open", F)
           /\ IsEvent(tail[n - 2], "flush", F)
           /\ IsEvent(tail[n - 1], "open", S)
           /\ IsEvent(tail[n], "flush", S)

\* the text of the file after process p has run its operation r alone
RunAlone(p, r, text) ==
    IF p = Term THEN ApplyChoice(r, text) ELSE ApplyRequest(r, text)

Succeeded(p) == pc[p] = "idle" /\ resp[p] = (IF p = Term THEN "ok" ELSE "200")

\* C3: when the terminal and the web server each parse, mutate and write, and
\* the second writer parsed before the first wrote, the file is exactly the
\* second writer's document, which is what the second writer's operation makes
\* of the file it parsed (the first writer's change is absent, nothing is
\* merged), and both operations succeed.
C3_LastWriteWins ==
    \A F, S \in {Term, "w1"} :
        (F # S /\ SecondWroteLast(F, S)) =>
            /\ file = write_board(board[S])
            /\ file = RunAlone(S, req[S], trace[LastStart(S)].before)
            /\ Succeeded(F)
            /\ Succeeded(S)

\* the terminal has written a change, then the web server has written the
\* move it made on the board it parsed before that, and the terminal's change
\* is gone
C3_Witness ==
    /\ SecondWroteLast(Term, "w1")
    /\ req["w1"].op = "move"
    /\ trace[Len(trace) - 1].before # trace[LastStart("w1")].before
    /\ file # trace[Len(trace) - 1].before
    /\ file # trace[LastStart("w1")].before

\* ------------------------------------------------------------------------
\* Claims about the Documents the operations produce
\* ------------------------------------------------------------------------

NonEmptyTitles(b) ==
    \A i \in 1..Len(b) : \A j \in 1..Len(b[i].cards) : b[i].cards[j].title # <<>>

\* C11: every card of a Document has a non-empty title; here, of every
\* Document parse_board returns.
C11_NonEmptyTitles ==
    phase \in {"parsed", "written", "reparsed", "rewritten"} => NonEmptyTitles(doc)

\* the cards of column k are those of b0 followed by one more card, and
\* nothing else of the Board differs
AppendedTo(b0, b, k) ==
    /\ Len(b) = Len(b0)
    /\ k \in 1..Len(b0)
    /\ b[k].name = b0[k].name
    /\ Len(b[k].cards) = Len(b0[k].cards) + 1
    /\ SubSeq(b[k].cards, 1, Len(b0[k].cards)) = b0[k].cards
    /\ \A i \in 1..Len(b0) : i # k => b[i] = b0[i]

\* C12: add appends and touches nothing else.  The new card (the title given,
\* the due date given stored under the key due, the body given) is the last card
\* of the column named (in the terminal the column picked, over REST the column
\* the name is looked up to); the other cards of that column keep their places
\* and every other column is unchanged.
C12_AddAppends ==
    \A p \in Procs :
        (pc[p] = "write" /\ req[p].op = "add") =>
            LET r == req[p]
                k == IF p = Term THEN r.pick ELSE get_column(board0[p], r.column)
                title == IF p = Term THEN r.title ELSE r.card.title
                body == IF p = Term THEN r.body ELSE r.card.body
                dues == IF p = Term
                        THEN (IF r.due # <<>> THEN {[key |-> KeyDue, val |-> r.due]} ELSE {})
                        ELSE {e \in DictItems(r.card.meta) : e.key = KeyDue}
            IN  /\ AppendedTo(board0[p], board[p], k)
                /\ LET new == board[p][k].cards[Len(board[p][k].cards)] IN
                   /\ new.title = title
                   /\ new.body = body
                   /\ dues \subseteq DictItems(new.meta)

\* the values of the expansion flag of a card: of the key defaultExpanded in
\* whatever case it is stored
FlagValues(card) ==
    {e.val : e \in {x \in DictItems(card.meta) : lower(x.key) = lower(KeyDefaultExpanded)}}

\* process p has just written the file
JustWrote(p) ==
    /\ trace # <<>>
    /\ trace[Len(trace)].ev = "flush"
    /\ trace[Len(trace)].proc = p

\* C13: when an edit (terminal edit_card, REST PUT /cards/{column}/{index})
\* sets a non-empty body, then in the file as written and parsed again the
\* card's expansion flag is false if the card had no flag before the edit, and
\* is the value it had before otherwise.
C13_EditKeepsExpansionFlag ==
    \A p \in Procs :
        (JustWrote(p) /\ req[p].op = "edit") =>
            LET r == req[p]
                k == IF p = Term THEN r.pick ELSE get_column(board0[p], r.column)
                sets_body == IF p = Term THEN r.edit_body /\ r.body # <<>>
                             ELSE r.card.body # <<>>
                before == board0[p][k].cards[r.index + 1]
                after == parse_board(file)[k].cards[r.index + 1]
            IN  sets_body =>
                    FlagValues(after) =
                        (IF FlagValues(before) = {} THEN {ValFalse} ELSE FlagValues(before))

\* the Board b0 with the card i of column k taken out and put at the end of
\* column d
MovedToEnd(b0, k, i, d) ==
    LET card == b0[k].cards[i + 1]
        rest == SetCards(b0, k, ListPop(b0[k].cards, i))
    IN  SetCards(rest, d, Append(rest[d].cards, card))

\* C14: archive is a move into Done.  The card picked is in a column other
\* than the Done column (the column get_column finds for "Done"), and archiving
\* takes that card out of its column and appends it to the Done column, all
\* other cards unchanged; without a Done column the Document and the file are
\* unchanged.
C14_ArchiveMovesToDone ==
    (req[Term].op = "archive" /\ pc[Term] # "menu") =>
        LET r == req[Term]
            b0 == board0[Term]
            done == get_column(b0, NameDone)
        IN  /\ done = 0 =>
                   (board[Term] = b0 /\ pc[Term] = "idle" /\ file = snap[Term])
            /\ done # 0 => r.pick # done
            /\ (done # 0 /\ r.confirm) =>
                   (pc[Term] \in {"write", "flush", "idle"}
                        /\ board[Term] = MovedToEnd(b0, r.pick, r.index, done))

\* the Board b is b0 without the card i of column k
RemovedFrom(b0, b, k, i) ==
    /\ Len(b) = Len(b0)
    /\ b[k].name = b0[k].name
    /\ Len(b[k].cards) = Len(b0[k].cards) - 1
    /\ \A j \in 1..Len(b[k].cards) :
           b[k].cards[j] = b0[k].cards[IF j <= i THEN j ELSE j + 1]
    /\ \A c \in 1..Len(b0) : c # k => b[c] = b0[c]

\* C15: delete removes exactly one card.  Deleting the card at a valid index
\* of a column (in the terminal the card picked and confirmed) removes that
\* card and no other: the column is one shorter, its other cards keep their
\* order, every other column is unchanged.
C15_DeleteRemovesOneCard ==
    \A p \in Procs :
        LET r == req[p] IN
        (/\ r.op = "delete"
         /\ pc[p] # "menu"
         /\ IF p = Term THEN r.confirm
            ELSE ~UnknownColumn(r, board0[p]) /\ ~IndexOutOfRange(r, board0[p])) =>
            /\ pc[p] \in {"write", "flush", "idle"}
            /\ RemovedFrom(board0[p], board[p],
                           IF p = Term THEN r.pick ELSE get_column(board0[p], r.column),
                           r.index)

\* ------------------------------------------------------------------------
\* Calendar dates (datetime.date), as proleptic Gregorian ordinals
\* ------------------------------------------------------------------------

IsDigit(c) == c \in Range(Digits)

DigitVal(c) == (CHOOSE i \in 1..10 : Digits[i] = c) - 1

RECURSIVE DigitsValue(_)
DigitsValue(s) ==
    IF s = <<>> THEN 0
    ELSE DigitsValue(SubSeq(s, 1, Len(s) - 1)) * 10 + DigitVal(s[Len(s)])

\* parse_digits: the value of the n ASCII digits of s from position pos on
\* (positions from 1), -1 when they are not all there
ParseDigits(s, pos, n) ==
    IF pos + n - 1 <= Len(s) /\ \A i \in pos..(pos + n - 1) : IsDigit(s[i])
    THEN DigitsValue(SubSeq(s, pos, pos + n - 1))
    ELSE -1

MinYear == 1

MaxYear == 9999

IsLeap(y) == y % 4 = 0 /\ (y % 100 # 0 \/ y % 400 = 0)

DaysInMonth(y, m) ==
    IF m = 2 THEN (IF IsLeap(y) THEN 29 ELSE 28)
    ELSE IF m \in {4, 6, 9, 11} THEN 30 ELSE 31

DaysBeforeYear(y) ==
    (y - 1) * 365 + ((y - 1) \div 4) - ((y - 1) \div 100) + ((y - 1) \div 400)

RECURSIVE DaysBeforeMonth(_, _)
DaysBeforeMonth(y, m) ==
    IF m = 1 THEN 0 ELSE DaysBeforeMonth(y, m - 1) + DaysInMonth(y, m - 1)

\* date(y, m, d).toordinal()
YmdToOrd(y, m, d) == DaysBeforeYear(y) + DaysBeforeMonth(y, m) + d

\* date.weekday(): Monday is 0
Weekday(ord) == (ord + 6) % 7

ValueError == [kind |-> "ValueError"]

DateOf(ord) == [kind |-> "date", ord |-> ord]

\* date(y, m, d): the constructor checks the ranges
NewDate(y, m, d) ==
    IF y \in MinYear..MaxYear /\ m \in 1..12 /\ d \in 1..DaysInMonth(y, m)
    THEN DateOf(YmdToOrd(y, m, d))
    ELSE ValueError

\* the ordinal of the Monday of ISO week 1 of year y
IsoWeek1Monday(y) ==
    LET first_day == YmdToOrd(y, 1, 1)
        first_weekday == Weekday(first_day)
        week1_monday == first_day - first_weekday
    IN  IF first_weekday > 3 THEN week1_monday + 7 ELSE week1_monday

\* the date of day d of ISO week w of ISO year y
IsoToDate(y, w, d) ==
    LET first_weekday == Weekday(YmdToOrd(y, 1, 1))
        week_ok == \/ w \in 1..52
                   \/ w = 53 /\ (first_weekday = 3 \/ (first_weekday = 2 /\ IsLeap(y)))
        ord == IsoWeek1Monday(y) + (w - 1) * 7 + d - 1
    IN  IF y \notin MinYear..MaxYear \/ ~week_ok \/ d \notin 1..7 THEN ValueError
        ELSE IF ord < 1 \/ ord > YmdToOrd(MaxYear, 12, 31) THEN ValueError
        ELSE DateOf(ord)

\* date.fromisoformat(s) before Python 3.11: YYYY-MM-DD and nothing else
FromIsoformat310(s) ==
    LET year == ParseDigits(s, 1, 4)
        month == ParseDigits(s, 6, 2)
        day == ParseDigits(s, 9, 2)
    IN  IF Len(s) # 10 \/ year < 0 \/ month < 0 \/ day < 0 THEN ValueError
        ELSE IF s[5] # "-" \/ s[8] # "-" THEN ValueError
        ELSE NewDate(year, month, day)

\* date.fromisoformat(s) from Python 3.11 on: YYYY-MM-DD, YYYYMMDD,
\* YYYY-Www, YYYYWww, YYYY-Www-D, YYYYWwwD
FromIsoformat311(s) ==
    LET n == Len(s)
        year == ParseDigits(s, 1, 4)
        uses_separator == n >= 5 /\ s[5] = "-"
        p == IF uses_separator THEN 6 ELSE 5
        \* the position after a separator expected at position q
        after_sep(q) == IF uses_separator THEN q + 1 ELSE q
        sep_ok(q) == ~uses_separator \/ (q <= n /\ s[q] = "-")
    IN
    IF n \notin {7, 8, 10} \/ year < 0 THEN ValueError
    ELSE IF s[p] = "W"
    THEN LET iso_week == ParseDigits(s, p + 1, 2)
             q == p + 3
             iso_day == IF q <= n THEN ParseDigits(s, after_sep(q), 1) ELSE 1
         IN  IF iso_week < 0 THEN ValueError
             ELSE IF q <= n /\ (~sep_ok(q) \/ iso_day < 0) THEN ValueError
             ELSE IsoToDate(year, iso_week, iso_day)
    ELSE LET month == ParseDigits(s, p, 2)
             q == p + 2
             day == ParseDigits(s, after_sep(q), 2)
         IN  IF month < 0 \/ ~sep_ok(q) \/ day < 0 THEN ValueError
             ELSE NewDate(year, month, day)

fromisoformat(s, v311) == IF v311 THEN FromIsoformat311(s) ELSE FromIsoformat310(s)

\* ------------------------------------------------------------------------
\* Dashboard (kanban.py): due dates and urgency tags
\* ------------------------------------------------------------------------

\* _parse_due without its except clause: the ValueError of fromisoformat
\* reaches the caller
ParseDueUncaught(meta, v311) ==
    IF ~HasKey(meta, KeyDue) THEN NoDue
    ELSE LET raw == (CHOOSE e \in DictItems(meta) : e.key = KeyDue).val IN
         IF raw = <<>> THEN NoDue ELSE fromisoformat(raw, v311)

\* _parse_due(card): a date, or None
parse_due(meta, v311) ==
    IF ~HasKey(meta, KeyDue) THEN NoDue
    ELSE LET raw == (CHOOSE e \in DictItems(meta) : e.key = KeyDue).val IN
         IF raw = <<>> THEN NoDue
         ELSE LET d == fromisoformat(raw, v311) IN
              IF d.kind = "ValueError" THEN NoDue ELSE d

Tag(kind, days) == [kind |-> kind, days |-> days]

NameLowerDone == <<"d", "o", "n", "e">>

NameLowerInProgress == <<"i", "n", " ", "p", "r", "o", "g", "r", "e", "s", "s">>

NameToDo == <<"T", "o", " ", "D", "o">>

\* week_end: the Sunday of the week of today
WeekEnd(tdy) == (tdy - Weekday(tdy)) + 6

\* section "This Week": the tag of a card of column col; "skipped" for the
\* Done column, "none" when the card is not listed
FocusTag(col, due, tdy) ==
    IF lower(col) = NameLowerDone THEN Tag("skipped", 0)
    ELSE IF lower(col) = NameLowerInProgress
    THEN (IF due.kind = "date" /\ due.ord < tdy
          THEN Tag("in progress overdue", tdy - due.ord)
          ELSE Tag("in progress", 0))
    ELSE IF due.kind = "date"
    THEN (IF due.ord < tdy THEN Tag("overdue", tdy - due.ord)
          ELSE IF due.ord <= WeekEnd(tdy)
          THEN (IF due.ord - tdy = 0 THEN Tag("today", 0)
                ELSE IF due.ord - tdy = 1 THEN Tag("tomorrow", 0)
                ELSE Tag("week", 0))
          ELSE Tag("none", 0))
    ELSE Tag("none", 0)

\* section "Top Todos": the mark beside a card of the column get_column finds
\* for "To Do"; "skipped" for the cards of other columns
TodoTag(col, due, tdy) ==
    IF lower(col) # lower(NameToDo) THEN Tag("skipped", 0)
    ELSE IF due.kind # "date" THEN Tag("undated", 0)
    ELSE LET delta == due.ord - tdy IN
         IF delta < 0 THEN Tag("overdue", -delta)
         ELSE IF delta = 0 THEN Tag("today", 0)
         ELSE IF delta <= 7 THEN Tag("soon", 0)
         ELSE Tag("dated", 0)

\* the last day of November 2026 among the due dates tried
MaxDueDay == 17

TwoDigits(n) == <<Digits[(n \div 10) + 1], Digits[(n % 10) + 1]>>

\* the text YYYY-MM-DD of a day of 2026
DateText(m, d) == <<"2", "0", "2", "6", "-">> \o TwoDigits(m) \o <<"-">> \o TwoDigits(d)

\* values of the key due that are not YYYY-MM-DD dates: empty, words, a day of
\* one digit, 30 February, and the other forms of 3 November 2026
OddDues ==
    { <<>>,
      <<"n", "o", "n", "e">>,
      <<"2", "0", "2", "6", "-", "1", "1", "-", "3">>,
      <<"2", "0", "2", "6", "-", "0", "2", "-", "3", "0">>,
      <<"2", "0", "2", "6", "1", "1", "0", "3">>,
      <<"2", "0", "2", "6", "-", "W", "4", "5", "-", "2">>,
      <<"2", "0", "2", "6", "W", "4", "5">>,
      <<"2", "0", "2", "6", "-", "W", "4", "5", "2">> }

DueTexts ==
    {DateText(10, d) : d \in 30..31} \cup {DateText(11, d) : d \in 1..MaxDueDay}
        \cup OddDues

DashMetas ==
    {<<>>, <<[key |-> <<"k">>, val |-> <<"v">>]>>}
        \cup {<<[key |-> KeyDue, val |-> v]>> : v \in DueTexts}

DashColumns ==
    {NameToDo, <<"I", "n", " ", "P", "r", "o", "g", "r", "e", "s", "s">>,
     NameDone, NameLowerDone, NameA}

\* Monday 2 to Sunday 8 November 2026
Todays == {YmdToOrd(2026, 11, d) : d \in 2..8}

DashInit ==
    /\ file = <<>>
    /\ CodecIdle
    /\ ParserIdle
    /\ FacadeIdle
    /\ WizIdle
    /\ py311 \in BOOLEAN
    /\ today \in Todays
    /\ dcol \in DashColumns
    /\ dmeta \in DashMetas
    /\ dpc = "idle"
    /\ ddue = NoDue
    /\ dtag = NoTag

\* due = _parse_due(card)
DashParseDue ==
    /\ dpc = "idle"
    /\ ddue' = parse_due(dmeta, py311)
    /\ dpc' = IF ddue'.kind = "ValueError" THEN "crashed" ELSE "due"
    /\ UNCHANGED <<file, codecVars, parserVars, facadeVars, wizVars, py311, today, dcol, dmeta, dtag>>

\* the tags of the card in the two sections
DashClassify ==
    /\ dpc = "due"
    /\ dtag' = [focus |-> FocusTag(dcol, ddue, today), todo |-> TodoTag(dcol, ddue, today)]
    /\ dpc' = "shown"
    /\ UNCHANGED <<file, codecVars, parserVars, facadeVars, wizVars, py311, today, dcol, dmeta, ddue>>

DashNext == DashParseDue \/ DashClassify

SpecDash == DashInit /\ [][DashNext]_vars

\* the Sunday of the week (Monday to Sunday) that holds the day tdy
SundayOf(tdy) == CHOOSE s \in tdy..(tdy + 6) : Weekday(s) = 6

\* the band the urgency classification gives a due date; later is Tag("none", 0),
\* a card that is not listed
UrgencyBand(due, tdy) ==
    IF due < tdy THEN Tag("overdue", tdy - due)
    ELSE IF due = tdy THEN Tag("today", 0)
    ELSE IF due = tdy + 1 THEN Tag("tomorrow", 0)
    ELSE IF due <= SundayOf(tdy) THEN Tag("week", 0)
    ELSE Tag("none", 0)

\* C16 as stated: every card with a due date in a column other than Done is
\* classified overdue (with the days), due today, due tomorrow, due within the
\* current week (through Sunday) or due later; in Top Todos, where tomorrow and
\* the rest of the week share one mark, the mark agrees with that band.
C16_UrgencyBands ==
    (dpc = "shown" /\ ddue.kind = "date" /\ lower(dcol) # NameLowerDone) =>
        LET band == UrgencyBand(ddue.ord, today) IN
        /\ dtag.focus = band
        /\ dtag.todo.kind # "skipped" =>
               \/ dtag.todo = band
               \/ dtag.todo.kind = "soon" /\ band.kind \in {"tomorrow", "week"}
               \/ dtag.todo.kind = "dated" /\ band.kind = "none"

\* the value of the key due, <<>> when the key is absent
DueValue(meta) ==
    IF HasKey(meta, KeyDue) THEN (CHOOSE e \in DictItems(meta) : e.key = KeyDue).val ELSE <<>>

\* the days of 2026 written YYYY-MM-DD (every due value tried is of 2026)
ValidDays == {md \in (1..12) \X (1..31) : md[2] <= DaysInMonth(2026, md[1])}

IsValidYmd(s) == \E md \in ValidDays : s = DateText(md[1], md[2])

C18_PutBoardFaithful ==
    \A p \in Workers :
        (JustWrote(p) /\ req[p].op = "put") => BoardEq(parse_board(file), req[p].board)

\* ------------------------------------------------------------------------
\* The canonical format
\* ------------------------------------------------------------------------

\* the sequences of a sequence of sequences, one after the other
RECURSIVE Flatten(_)
Flatten(seqs) == IF seqs = <<>> THEN <<>> ELSE Head(seqs) \o Flatten(Tail(seqs))

\* the lines of the canonical format for one card
CanonCard(card) ==
    LET heading == << <<"#", "#", "#", " ">> \o card.title, <<>> >>
        metas == [i \in 1..Len(card.meta) |->
                     <<" ", " ", "-", " ">> \o card.meta[i].key \o <<":", " ">> \o card.meta[i].val]
        pieces == split(card.body)
        fenced == << <<" ", " ", " ", " ", BT, BT, BT, "m", "d">> >>
                  \o [i \in 1..Len(pieces) |-> <<" ", " ", " ", " ">> \o pieces[i]]
                  \o << <<" ", " ", " ", " ", BT, BT, BT>> >>
    IN  IF card.meta = <<>> /\ card.body = <<>> THEN heading
        ELSE heading \o metas \o (IF card.body = <<>> THEN <<>> ELSE fenced) \o << <<>> >>

\* the lines of the canonical format for one column
CanonColumn(col) ==
    << <<"#", "#", " ">> \o col.name, <<>> >>
    \o Flatten([j \in 1..Len(col.cards) |-> CanonCard(col.cards[j])])

\* the lines of the canonical format for a Document
CanonLines(b) == Flatten([i \in 1..Len(b) |-> CanonColumn(b[i])])

\* the Document of the concrete scenario
ScenarioDoc ==
    << Column(NameToDo,
              << Card(<<"F", "i", "x", " ", "l", "o", "g", "i", "n", " ", "b", "u", "g">>,
                      <<[key |-> KeyDue,
                         val |-> <<"2", "0", "2", "5", "-", "0", "1", "-", "1", "0">>]>>,
                      <<"-", " ", "s", "t", "e", "p", "s", " ", "t", "o", " ", "r", "e", "p", "r", "o">>) >>),
       Column(NameDone, <<>>) >>

\* C20 as stated: write_board is a deterministic total function that emits the
\* canonical format (the lines joined by newlines and ended by one); writing
\* the same Document twice gives the same text; the Document of the concrete
\* scenario is written back as the scenario text.
C20_CanonicalWrite ==
    /\ phase \in {"written", "rewritten"} => file = join(CanonLines(doc)) \o <<NL>>
    /\ (phase = "rewritten" /\ doc = prevdoc) => file = prevout
    /\ (phase = "written" /\ text0 = ScenarioText) => (doc = ScenarioDoc /\ file = ScenarioText)

\* C20 amended: as C20, except that the Document of the concrete scenario is
\* written back as the scenario text followed by one blank line, the blank
\* line the canonical format puts after the heading of the column Done.
C20_CanonicalWriteBlankEnd ==
    /\ phase \in {"written", "rewritten"} => file = join(CanonLines(doc)) \o <<NL>>
    /\ (phase = "rewritten" /\ doc = prevdoc) => file = prevout
    /\ (phase = "written" /\ text0 = ScenarioText) =>
           (doc = ScenarioDoc /\ file = ScenarioText \o <<NL>>)

\* the Document of the concrete scenario has been parsed and written
C20_Witness ==
    /\ phase = "written"
    /\ text0 = ScenarioText
    /\ doc = ScenarioDoc
    /\ file = Unlines(ScenarioLines \o << <<>> >>)

\* ------------------------------------------------------------------------
\* Fresh Documents
\* ------------------------------------------------------------------------

\* index in the trace of the last start of process p before event i, 0 if none
StartBefore(p, i) ==
    LET S == {j \in 1..(i - 1) : trace[j].ev = "start" /\ trace[j].proc = p}
    IN  IF S = {} THEN 0 ELSE CHOOSE j \in S : \A k \in S : k <= j

\* event i, an open of the file for writing, belongs to an operation that
\* began with a parse of the file and has not written before
WriteAfterOwnParse(i) ==
    LET p == trace[i].proc
        j == StartBefore(p, i)
    IN  /\ j > 0
        /\ trace[j].parsed
        /\ \A k \in (j + 1)..(i - 1) : trace[k].proc # p

\* process p, about to write or writing, works on what its operation made of
\* the Document parsed at the start of this operation
WorksOnOwnParse(p) ==
    LET j == LastStart(p) IN
    /\ j > 0
    /\ trace[j].parsed
    /\ board0[p] = parse_board(trace[j].before)
    /\ board[p] = (IF p = Term THEN MenuResult(req[p], board0[p])
                   ELSE HandlerResult(req[p], board0[p])).board

Writing(p) == pc[p] \in {"write", "flush"}

NthIn(S, k) == CHOOSE x \in S : Cardinality({y \in S : y < x}) = k - 1

\* the names of the columns of a Document, each with the titles of its cards
Outline(b) ==
    [k \in 1..Len(b) |->
        [name |-> b[k].name,
         titles |-> [j \in 1..Len(b[k].cards) |-> b[k].cards[j].title]]]

\* the outline read off the heading lines of a text: a column for every column
\* heading, holding the card headings between it and the next column heading
HeadingOutline(text) ==
    LET ls == split(text)
        H == {i \in 1..Len(ls) : H2Matches(ls[i])}
        n == Cardinality(H)
    IN  [k \in 1..n |->
            LET a == NthIn(H, k)
                b == IF k < n THEN NthIn(H, k + 1) ELSE Len(ls) + 1
                C == {i \in (a + 1)..(b - 1) : H3Matches(ls[i])}
            IN  [name |-> strip(H2Group(ls[a])),
                 titles |-> [j \in 1..Cardinality(C) |-> strip(H3Group(ls[NthIn(C, j)]))]]]

\* C22: the parsed Document lists the columns in the order of their heading
\* lines and, within each column, exactly the cards whose headings lie between
\* that column's heading and the next column heading, in textual order.
C22_OrderAndAttribution ==
    phase = "parsed" => Outline(doc) = HeadingOutline(text0)

\* the lines of a text that are card headings and come after a column heading
CardsUnderColumns(text) ==
    LET ls == split(text) IN
    {i \in 1..Len(ls) : H3Matches(ls[i]) /\ \E j \in 1..(i - 1) : H2Matches(ls[j])}

\* C23: a card heading that appears before any column heading is ignored: the
\* cards of the parsed Document are those whose headings come after a column
\* heading, so a card that comes before is in no column, not even in the
\* first column that opens later.
C23_OrphanCardsIgnored ==
    phase = "parsed" => TotalCards(doc) = Cardinality(CardsUnderColumns(text0))

\* the cards of a Document, column after column
AllCards(b) == Flatten([k \in 1..Len(b) |-> b[k].cards])

IsHeading(line) == H2Matches(line) \/ H3Matches(line)

\* the block of the j-th card heading of a text: the lines after it, up to the
\* next heading or the end of the text
BlockOf(text, j) ==
    LET ls == split(text)
        a == NthIn({i \in 1..Len(ls) : H3Matches(ls[i])}, j)
        later == {i \in (a + 1)..Len(ls) : IsHeading(ls[i])}
        b == IF later = {} THEN Len(ls) + 1 ELSE NthIn(later, 1)
    IN  SubSeq(ls, a + 1, b - 1)

IsFenceLine(line) == startswith(strip(line), <<BT, BT, BT>>)

\* fenced mode is on when line i of the block is seen
FencedAt(bl, i) == Cardinality({j \in 1..(i - 1) : IsFenceLine(bl[j])}) % 2 = 1

\* the lines of a block seen while fenced mode is on
FencedLines(bl) == {i \in 1..Len(bl) : ~IsFenceLine(bl[i]) /\ FencedAt(bl, i)}

\* the metadata-shaped lines of a block seen while fenced mode is off
MetaShapedLines(bl) ==
    {i \in 1..Len(bl) : ~IsFenceLine(bl[i]) /\ ~FencedAt(bl, i) /\ MetaMatches(strip(bl[i]))}

LineKey(line) == lower(strip(MetaKeyGroup(strip(line))))

LineVal(line) == strip(MetaValGroup(strip(line)))

Keys(meta) == {e.key : e \in DictItems(meta)}

\* C24: within a card's block a line starting (trimmed) with three backticks
\* toggles fenced mode; the body of the card is made of the lines seen while
\* fenced mode is on and of nothing else (each trimmed, joined by newlines, the
\* whole trimmed), and none of them is stored as metadata; the keys of the
\* card's metadata are those of the metadata-shaped lines seen while fenced
\* mode is off, and none of these lines is in the body.
C24_FenceDecides ==
    (phase = "parsed" /\ doc # <<>>) =>
        \A j \in 1..Len(AllCards(doc)) :
            LET card == AllCards(doc)[j]
                bl == BlockOf(text0, j)
                F == FencedLines(bl)
            IN  /\ card.body =
                       strip(join([k \in 1..Cardinality(F) |-> strip(bl[NthIn(F, k)])]))
                /\ Keys(card.meta) = {LineKey(bl[i]) : i \in MetaShapedLines(bl)}

\* a card whose block holds a metadata-shaped line inside a fence and another
\* outside has been parsed: the first is its body, the second its metadata
C24_Witness ==
    /\ phase = "parsed"
    /\ \E j \in 1..Len(AllCards(doc)) :
           LET card == AllCards(doc)[j]
               bl == BlockOf(text0, j)
           IN  /\ \E i \in FencedLines(bl) : MetaMatches(strip(bl[i]))
               /\ MetaShapedLines(bl) # {}
               /\ card.body # <<>>
               /\ Keys(card.meta) = {KeyDue}

\* the last metadata-shaped unfenced line of a block whose key, lower-cased, is key
LastLineOf(bl, key) ==
    LET S == {i \in MetaShapedLines(bl) : LineKey(bl[i]) = key}
    IN  NthIn(S, Cardinality(S))

\* C25: in every card returned by the parser every meta key is lower-case and
\* trimmed, every value is trimmed, no two keys are equal ignoring case, and
\* the value stored under a key is that of the last unfenced metadata line of
\* the card's block with that key (ignoring case).
C25_LowerKeysLastWins ==
    (phase = "parsed" /\ doc # <<>>) =>
        \A j \in 1..Len(AllCards(doc)) :
            LET meta == AllCards(doc)[j].meta
                bl == BlockOf(text0, j)
            IN  /\ \A n \in 1..Len(meta) :
                       /\ lower(meta[n].key) = meta[n].key
                       /\ strip(meta[n].key) = meta[n].key
                       /\ strip(meta[n].val) = meta[n].val
                       /\ meta[n].val = LineVal(bl[LastLineOf(bl, meta[n].key)])
                /\ \A n, m \in 1..Len(meta) :
                       lower(meta[n].key) = lower(meta[m].key) => n = m

\* a card has been parsed whose block gives the key K and then the key k, with
\* different values: the card has the one key k, with the later value
C25_Witness ==
    /\ phase = "parsed"
    /\ \E j \in 1..Len(AllCards(doc)) :
           LET meta == AllCards(doc)[j].meta
               bl == BlockOf(text0, j)
           IN  /\ \E a, b \in MetaShapedLines(bl) :
                      /\ a < b
                      /\ LineKey(bl[a]) = LineKey(bl[b])
                      /\ strip(MetaKeyGroup(strip(bl[a]))) # LineKey(bl[a])
                      /\ LineVal(bl[a]) # LineVal(bl[b])
               /\ meta = <<[key |-> <<"k">>, val |-> <<"v">>]>>

\* a trimmed line with the dash put in front when it has none
WithDash(s) == IF s # <<>> /\ s[1] = "-" THEN s ELSE <<"-", " ">> \o s

\* the unfenced lines of a block of the shape key: value, with or without a
\* leading dash
KeyValueLines(bl) ==
    {i \in 1..Len(bl) :
        ~IsFenceLine(bl[i]) /\ ~FencedAt(bl, i) /\ MetaMatches(WithDash(strip(bl[i])))}

\* C26: the leading dash of a metadata line is optional: outside a fence every
\* line of a card's block whose trimmed content is key: value, with or without
\* a leading dash, is stored as metadata (the last line of a key giving its
\* value).
C26_DashOptional ==
    (phase = "parsed" /\ doc # <<>>) =>
        \A j \in 1..Len(AllCards(doc)) :
            LET meta == AllCards(doc)[j].meta
                bl == BlockOf(text0, j)
                K == KeyValueLines(bl)
                key(i) == lower(strip(MetaKeyGroup(WithDash(strip(bl[i])))))
                val(i) == strip(MetaValGroup(WithDash(strip(bl[i]))))
            IN  \A i \in K :
                    /\ key(i) \in Keys(meta)
                    /\ (\A n \in K : key(n) = key(i) => n <= i) =>
                           [key |-> key(i), val |-> val(i)] \in DictItems(meta)

\* line i of the lines ls is unrecognised text: it lies before the first
\* column heading, or between a column heading and its first card heading,
\* or in a card's block, outside a fence, without the shape of metadata
Unrecognised(ls, i) ==
    LET before == {j \in 1..(i - 1) : IsHeading(ls[j])}
        a == NthIn(before, Cardinality(before))
        bl == SubSeq(ls, a + 1, Len(ls))
    IN  \/ \A j \in 1..i : ~H2Matches(ls[j])
        \/ /\ ~IsHeading(ls[i])
           /\ \/ H2Matches(ls[a])
              \/ /\ ~IsFenceLine(ls[i])
                 /\ ~FencedAt(bl, i - a)
                 /\ ~MetaMatches(strip(ls[i]))

\* a text without its unrecognised lines
Recognised(text) ==
    LET ls == split(text)
        K == {i \in 1..Len(ls) : ~Unrecognised(ls, i)}
    IN  join([k \in 1..Cardinality(K) |-> ls[NthIn(K, k)]])

\* C30: unrecognised text contributes nothing to the parsed Document, so the
\* file written after the parse is the file that would have been written had
\* those lines not been there.
C30_UnrecognisedDropped ==
    /\ phase = "parsed" => doc = parse_board(Recognised(text0))
    /\ phase = "written" => file = write_board(parse_board(Recognised(text0)))

\* ------------------------------------------------------------------------
\* Readers during a write
\* ------------------------------------------------------------------------

\* the writes that have opened the file and not yet written it when event i
\* happens
OpenWrites(i) ==
    {j \in 1..(i - 1) :
        /\ trace[j].ev = "open"
        /\ \A k \in (j + 1)..(i - 1) : ~IsEvent(trace[k], "flush", trace[j].proc)}

\* the text of the file right after event k
TextAfter(k) == IF k = Len(trace) THEN file ELSE trace[k + 1].before

\* the Document read back from what the write opened at event j writes
DocWritten(j) ==
    LET q == trace[j].proc
        K == {k \in (j + 1)..Len(trace) : IsEvent(trace[k], "flush", q)}
    IN  IF K = {} THEN parse_board(write_board(board[q]))
        ELSE parse_board(TextAfter(NthIn(K, 1)))

\* C29: a parse_board that runs while another thread or process is inside
\* write_board returns either the Document that was on disk before the write
\* or the Document being written, never an empty or truncated Document.
C29_AtomicWrite ==
    \A i \in 1..Len(trace) :
        (trace[i].ev = "start" /\ trace[i].parsed) =>
            \A j \in OpenWrites(i) :
                parse_board(trace[i].before) \in {parse_board(trace[j].before), DocWritten(j)}

\* ------------------------------------------------------------------------
\* Step runner (ui.py): run_steps
\* ------------------------------------------------------------------------

\* largest number of steps in a list handed to run_steps
MaxSteps == 4

\* what a step function returns; "None" stands for any other value
StepResults == {"True", "False", "BACK", "QUIT", "None"}

\* what yn returns
YnAnswers == {"True", "False", "BACK", "QUIT"}

\* idx - 1 without the floor at the first step
BackIndexUnbounded(idx) == idx - 1

\* max(0, idx - 1)
BackIndex(idx) == Max(0, idx - 1)

\* run_steps(steps, state) is called; idx = 0
StepsInit ==
    /\ file = <<>>
    /\ CodecIdle
    /\ ParserIdle
    /\ FacadeIdle
    /\ DashIdle
    /\ sn \in 1..MaxSteps
    /\ sidx = 0
    /\ spc = "loop"
    /\ slast = NoStep
    /\ sret = "none"
    /\ cqueue = <<>>
    /\ cn = 0
    /\ cpc = "off"
    /\ cfi = 0
    /\ clog = <<>>
    /\ cret = "none"
    /\ cmade = 0
    /\ creport = -1

\* while 0 <= idx < len(steps): the step is called, or the loop ends and
\* run_steps returns True
StepsTest ==
    /\ spc = "loop"
    /\ IF 0 <= sidx /\ sidx < sn
       THEN spc' = "step" /\ sret' = sret
       ELSE spc' = "done" /\ sret' = "True"
    /\ UNCHANGED <<file, codecVars, parserVars, facadeVars, dashVars, createVars, sn, sidx, slast>>

\* result = func(state), and the branches on it
StepsResult(result) ==
    /\ spc = "step"
    /\ slast' = [idx |-> sidx, res |-> result]
    /\ spc' = IF result = "QUIT" THEN "ask" ELSE "loop"
    /\ sidx' = CASE result = "BACK" -> BackIndex(sidx)
                 [] result = "True" -> sidx + 1
                 [] OTHER -> sidx
    /\ UNCHANGED <<file, codecVars, parserVars, facadeVars, dashVars, createVars, sn, sret>>

\* abandon = yn(...): return False, or continue
StepsAbandon(abandon) ==
    /\ spc = "ask"
    /\ IF abandon = "True"
       THEN spc' = "done" /\ sret' = "False"
       ELSE spc' = "loop" /\ sret' = sret
    /\ UNCHANGED <<file, codecVars, parserVars, facadeVars, dashVars, createVars, sn, sidx, slast>>

StepsStep == \E result \in StepResults : StepsResult(result)

StepsAsk == \E abandon \in YnAnswers : StepsAbandon(abandon)

StepsNext == StepsTest \/ StepsStep \/ StepsAsk

SpecSteps == StepsInit /\ [][StepsNext]_vars

\* C27: in run_steps the step index always stays within 0..len(steps); a step
\* returning True advances by exactly one, False stays, BACK goes back by one
\* but never below the first step, and QUIT followed by a declined
\* confirmation runs the same step again; run_steps returns True only after
\* the last step returned True, and returns False only after a step returned
\* QUIT and the user confirmed abandoning.
C27_StepRunner ==
    /\ sidx \in 0..sn
    /\ [][/\ sidx' \in 0..sn
          /\ spc = "step" =>
                 /\ slast'.res = "True" => sidx' = sidx + 1
                 /\ slast'.res \in {"False", "None", "QUIT"} => sidx' = sidx
                 /\ slast'.res = "BACK" => sidx' = (IF sidx = 0 THEN 0 ELSE sidx - 1)
                 /\ slast'.res = "QUIT" => spc' = "ask"
          /\ (spc = "ask" /\ spc' # "done") =>
                 (spc' = "loop" /\ sidx' = slast.idx /\ sidx' < sn)
          /\ (spc # "done" /\ spc' = "done" /\ sret' = "True") =>
                 (spc = "loop" /\ slast = [idx |-> sn - 1, res |-> "True"])
          /\ (spc # "done" /\ spc' = "done" /\ sret' = "False") =>
                 (spc = "ask" /\ slast.res = "QUIT")
          /\ (spc # "done" /\ spc' = "done") => sret' \in {"True", "False"}
          /\ spc' # "done" => sret' = "none"]_vars

\* run_steps, called with the longest list of steps, has returned True and
\* the last step run was the last of the list, returning True
C27_Witness ==
    /\ spc = "done"
    /\ sret = "True"
    /\ sn = MaxSteps
    /\ slast = [idx |-> sn - 1, res |-> "True"]

\* ------------------------------------------------------------------------
\* Issue creation (wizard.py, ai.py, gh.py)
\* ------------------------------------------------------------------------

\* largest number of drafts in a batch
MaxDrafts == 2

\* largest number of entries of state["fields"]
MaxFields == 2

\* state["fields"] as the wizard and the drafts fill it: single-select fields,
\* then possibly the iteration
FieldLists ==
    {[i \in 1..k |-> IF i = k /\ it THEN "iteration" ELSE "single_select"] :
        k \in 0..MaxFields, it \in BOOLEAN}

\* a draft: whether labels were requested, and the types of its fields
Drafts == [labels : BOOLEAN, fields : FieldLists]

RECURSIVE DraftLists(_)
DraftLists(n) ==
    IF n = 0 THEN {<<>>}
    ELSE LET shorter == DraftLists(n - 1) IN
         shorter \cup {Append(ds, d) : ds \in shorter, d \in Drafts}

\* set_project_field: a mutation is sent for these field types only
set_project_field(field_type) == field_type \in {"single_select", "iteration"}

Command(cmd, arg, ok) == [cmd |-> cmd, arg |-> arg, ok |-> ok]

\* _create_batch(drafts) is called
CreateInit ==
    /\ file = <<>>
    /\ CodecIdle
    /\ ParserIdle
    /\ FacadeIdle
    /\ DashIdle
    /\ sn = 0
    /\ sidx = 0
    /\ spc = "off"
    /\ slast = NoStep
    /\ sret = "none"
    /\ cqueue \in DraftLists(MaxDrafts) \ {<<>>}
    /\ cn = Len(cqueue)
    /\ cpc = "idle"
    /\ cfi = 0
    /\ clog = <<>>
    /\ cret = "none"
    /\ cmade = 0
    /\ creport = -1

\* execute_create(state) is called for the next draft
CreateBegin ==
    /\ cpc = "idle"
    /\ cqueue # <<>>
    /\ cpc' = IF Head(cqueue).labels THEN "labels" ELSE "create"
    /\ clog' = <<>>
    /\ cfi' = 0
    /\ UNCHANGED <<file, codecVars, parserVars, facadeVars, dashVars, stepVars,
                   cqueue, cn, cret, cmade, creport>>

\* repo_labels = fetch_labels(...): gh label list; on failure every label is
\* skipped
CreateLabels(ok) ==
    /\ cpc = "labels"
    /\ clog' = Append(clog, Command("label-list", 0, ok))
    /\ cpc' = "create"
    /\ UNCHANGED <<file, codecVars, parserVars, facadeVars, dashVars, stepVars,
                   cqueue, cn, cfi, cret, cmade, creport>>

\* issue_url = gh("issue", "create", ...); if not issue_url: return
CreateIssue(ok) ==
    /\ cpc = "create"
    /\ clog' = Append(clog, Command("issue-create", 0, ok))
    /\ cmade' = IF ok THEN cmade + 1 ELSE cmade
    /\ cpc' = IF ok THEN "add" ELSE "return"
    /\ UNCHANGED <<file, codecVars, parserVars, facadeVars, dashVars, stepVars,
                   cqueue, cn, cfi, cret, creport>>

\* the item-add whose failure does not end execute_create
CreateAddKeepGoing(ok) ==
    /\ cpc = "add"
    /\ clog' = Append(clog, Command("item-add", 0, ok))
    /\ cpc' = "fields"
    /\ cfi' = 1
    /\ UNCHANGED <<file, codecVars, parserVars, facadeVars, dashVars, stepVars,
                   cqueue, cn, cret, cmade, creport>>

\* item_json = gh("project", "item-add", ...); if not item_json: return
CreateAdd(ok) ==
    /\ cpc = "add"
    /\ clog' = Append(clog, Command("item-add", 0, ok))
    /\ cpc' = IF ok THEN "fields" ELSE "return"
    /\ cfi' = IF ok THEN 1 ELSE cfi
    /\ UNCHANGED <<file, codecVars, parserVars, facadeVars, dashVars, stepVars,
                   cqueue, cn, cret, cmade, creport>>

\* one turn of the loop over state["fields"].items(): the result of the
\* mutation is not looked at
CreateField(ok) ==
    /\ cpc = "fields"
    /\ cfi <= Len(Head(cqueue).fields)
    /\ clog' = IF set_project_field(Head(cqueue).fields[cfi])
               THEN Append(clog, Command("field", cfi, ok))
               ELSE clog
    /\ cfi' = cfi + 1
    /\ UNCHANGED <<file, codecVars, parserVars, facadeVars, dashVars, stepVars,
                   cqueue, cn, cpc, cret, cmade, creport>>

\* execute_create returns, by a bare return or at its end: None either way
CreateReturn ==
    /\ \/ cpc = "return"
       \/ cpc = "fields" /\ cfi > Len(Head(cqueue).fields)
    /\ cret' = "None"
    /\ cqueue' = Tail(cqueue)
    /\ cpc' = "idle"
    /\ UNCHANGED <<file, codecVars, parserVars, facadeVars, dashVars, stepVars,
                   cn, cfi, clog, cmade, creport>>

\* print("All {len(drafts)} issue(s) created!")
BatchReport ==
    /\ cpc = "idle"
    /\ cqueue = <<>>
    /\ creport' = cn
    /\ cpc' = "done"
    /\ UNCHANGED <<file, codecVars, parserVars, facadeVars, dashVars, stepVars,
                   cqueue, cn, cfi, clog, cret, cmade>>

CreateLabelsStep == \E ok \in BOOLEAN : CreateLabels(ok)

CreateIssueStep == \E ok \in BOOLEAN : CreateIssue(ok)

CreateAddStep == \E ok \in BOOLEAN : CreateAdd(ok)

CreateFieldStep == \E ok \in BOOLEAN : CreateField(ok)

CreateNext ==
    \/ CreateBegin
    \/ CreateLabelsStep
    \/ CreateIssueStep
    \/ CreateAddStep
    \/ CreateFieldStep
    \/ CreateReturn
    \/ BatchReport

SpecCreate == CreateInit /\ [][CreateNext]_vars

\* a command that creates the issue or puts it on the board has failed
CreationFailed(log) ==
    \E i \in 1..Len(log) : log[i].cmd \in {"issue-create", "item-add"} /\ ~log[i].ok

\* C21: when issue create or project item-add fails, execute_create signals
\* the failure to its caller (it does not return what it returns after a
\* creation that worked, None), and a batch create reports as created only
\* the issues that were created.
C21_BackendFailureReported ==
    /\ (cpc = "idle" /\ cret # "none" /\ CreationFailed(clog)) => cret # "None"
    /\ cpc = "done" => creport = cmade

\* the commands execute_create is to send for a draft, label query aside
CreationCommands(draft) ==
    <<[cmd |-> "issue-create", arg |-> 0], [cmd |-> "item-add", arg |-> 0]>>
    \o [i \in 1..Len(draft.fields) |-> [cmd |-> "field", arg |-> i]]

Sent(log) == [i \in 1..Len(log) |-> [cmd |-> log[i].cmd, arg |-> log[i].arg]]

IsPrefix(s, t) == Len(s) <= Len(t) /\ s = SubSeq(t, 1, Len(s))

Creating == cpc \in {"labels", "create", "add", "fields", "return"}

\* a failed issue-create or item-add is the last command sent
StopsAtFailure(log) ==
    \A i \in 1..Len(log) :
        (log[i].cmd \in {"issue-create", "item-add"} /\ ~log[i].ok) => i = Len(log)

\* the commands of a log that create the issue, put it on the board or set a
\* field: the query for the labels of the repository is not one of them
IsCreationCommand(c) == c.cmd # "label-list"

CreationLog == SelectSeq(clog, IsCreationCommand)

\* C28: execute_create sends the backend commands in the order issue-create,
\* project item-add, then one field mutation per selected field; after a
\* failed issue-create neither item-add nor a field mutation is sent, after a
\* failed item-add no field mutation is sent; no command is sent a second time.
C28_OrderedNoRetry ==
    Creating =>
        LET all == CreationCommands(Head(cqueue)) IN
        /\ IsPrefix(Sent(CreationLog), all)
        /\ StopsAtFailure(CreationLog)
        /\ StopsAtFailure(clog)
        /\ cpc = "add" => Len(CreationLog) = 1
        /\ cpc = "return" => CreationFailed(clog)
        /\ (cpc = "fields" /\ ~CreationFailed(clog)) => Len(CreationLog) = cfi + 1
        /\ (cpc = "fields" /\ cfi > Len(Head(cqueue).fields)) => Sent(CreationLog) = all

\* the label query failed, the issue was created, item-add failed:
\* execute_create is about to return without having sent the mutations of the
\* two fields selected
C28_Witness ==
    /\ cpc = "return"
    /\ Len(Head(cqueue).fields) = 2
    /\ clog = <<Command("label-list", 0, FALSE), Command("issue-create", 0, TRUE),
                Command("item-add", 0, FALSE)>>

====
